---- MODULE Spec2Model ----
(***************************************************************************)
(* PRISMA 2020 flow-diagram engine (src/app.py, generate_diagram).         *)
(*                                                                         *)
(* Units.  Lengths and coordinates are in 1/1000 of a drawing unit         *)
(* (Y_ID = 20.0 is 20000), line widths in 1/100 pt (box_lw 1.3 is 130),    *)
(* the arrow width ALW in 1/10000 pt, font_scale in tenths (1.0 is 10)     *)
(* and font sizes in 1/1000 pt (14.0 is 14000).                            *)
(*                                                                         *)
(* Text.  A Python string is a sequence of tokens: a whitespace character  *)
(* of an input value is one token, a run of other characters is one or     *)
(* more tokens, and every literal chunk of an f-string is one token.       *)
(* Formatting is concatenation of such sequences.  The bullets and dashes  *)
(* of the literals are written in ASCII ("*", "o", "-").                   *)
(***************************************************************************)
EXTENDS Integers, Sequences, FiniteSets, Bags, TLC

VARIABLES registry, plt, parked, requests, results, pc, d, st, boxes, conns, decor, ax,
          db, session, request, response

vars == <<registry, plt, parked, requests, results, pc, d, st, boxes, conns, decor, ax,
          db, session, request, response>>

\* the state of the web application around the engine: the SQLite file, the
\* session cookie each browser holds, the request being served and its response
web == <<db, session, request, response>>

(***************************************************************************)
(* Python helpers                                                          *)
(***************************************************************************)
Max(a, b) == IF a >= b THEN a ELSE b

Min(a, b) == IF a <= b THEN a ELSE b

\* str.strip() strips whitespace characters
WS == {" ", "\t"}

RECURSIVE LStrip(_)
LStrip(s) == IF s # <<>> /\ Head(s) \in WS THEN LStrip(Tail(s)) ELSE s

RECURSIVE RStrip(_)
RStrip(s) == IF s # <<>> /\ s[Len(s)] \in WS THEN RStrip(SubSeq(s, 1, Len(s) - 1)) ELSE s

strip(s) == RStrip(LStrip(s))

\* dict.get(key, default)
get(m, key, default) == IF key \in DOMAIN m THEN m[key] ELSE default

\* x or y, for strings: the empty string is falsy
or(x, y) == IF x # <<>> THEN x ELSE y

\* the literal "0"
ZERO == <<"0">>

\* the literal ""
EMPTY == <<>>

(***************************************************************************)
(* Style registry                                                          *)
(***************************************************************************)
DIAGRAM_STYLES ==
  [ classic |->
      [ name |-> "Classic Blue", bg_col |-> "white",
        boxstyle |-> "round,pad=0.03", box_lw |-> 130, arrow_lw |-> 130,
        box_fg |-> "#f0f7ff", box_edge |-> "#2c3e50",
        inc_fg |-> "#d0eaff", inc_edge |-> "#1a6fa0", inc_lw |-> 200,
        side_fg |-> "white", side_edge |-> "#2c3e50",
        text_col |-> "#222222", title_col |-> "#1a3a5c", arrow_col |-> "#2c3e50",
        shadow |-> FALSE, phase_bands |-> FALSE ],
    academic |->
      [ name |-> "Academic Square", bg_col |-> "white",
        boxstyle |-> "square,pad=0.04", box_lw |-> 200, arrow_lw |-> 160,
        box_fg |-> "#ffffff", box_edge |-> "#111111",
        inc_fg |-> "#f5f5ff", inc_edge |-> "#111111", inc_lw |-> 250,
        side_fg |-> "#fffde7", side_edge |-> "#888800",
        text_col |-> "#111111", title_col |-> "#111111", arrow_col |-> "#111111",
        shadow |-> FALSE, phase_bands |-> TRUE,
        phase_cols |-> <<"#1565c0", "#2e7d32", "#e65100", "#6a1b9a", "#00695c">> ],
    colorful |->
      [ name |-> "Colorful Phases", bg_col |-> "#f8faff",
        boxstyle |-> "round,pad=0.04", box_lw |-> 180, arrow_lw |-> 150,
        box_fg |-> "#e3f2fd", box_edge |-> "#1565c0",
        inc_fg |-> "#e8f5e9", inc_edge |-> "#2e7d32", inc_lw |-> 250,
        side_fg |-> "#fff3e0", side_edge |-> "#e65100",
        text_col |-> "#1a1a2e", title_col |-> "#1a237e", arrow_col |-> "#455a64",
        shadow |-> FALSE, phase_bands |-> FALSE,
        phase_box_cols |-> << [fg |-> "#e3f2fd", edge |-> "#1565c0"],
                              [fg |-> "#fff9c4", edge |-> "#f57f17"],
                              [fg |-> "#ffe0b2", edge |-> "#e65100"],
                              [fg |-> "#f3e5f5", edge |-> "#7b1fa2"] >> ],
    minimal |->
      [ name |-> "Minimal Outline", bg_col |-> "white",
        boxstyle |-> "square,pad=0.02", box_lw |-> 75, arrow_lw |-> 90,
        box_fg |-> "white", box_edge |-> "#888888",
        inc_fg |-> "#f5f5f5", inc_edge |-> "#333333", inc_lw |-> 130,
        side_fg |-> "white", side_edge |-> "#bbbbbb",
        text_col |-> "#333333", title_col |-> "#333333", arrow_col |-> "#666666",
        shadow |-> FALSE, phase_bands |-> FALSE ],
    bold_navy |->
      [ name |-> "Bold Navy", bg_col |-> "#e8eeff",
        boxstyle |-> "round,pad=0.04", box_lw |-> 50, arrow_lw |-> 180,
        box_fg |-> "#1a3a6a", box_edge |-> "#0a2040",
        inc_fg |-> "#0a5f8a", inc_edge |-> "#04315a", inc_lw |-> 200,
        side_fg |-> "#2e4a80", side_edge |-> "#0a2040",
        text_col |-> "#ffffff", title_col |-> "#0a2040", arrow_col |-> "#1a3a6a",
        shadow |-> FALSE, phase_bands |-> FALSE ],
    shadowed |->
      [ name |-> "Shadowed Cards", bg_col |-> "#eef0f4",
        boxstyle |-> "round,pad=0.04", box_lw |-> 100, arrow_lw |-> 130,
        box_fg |-> "#ffffff", box_edge |-> "#b0bcd0",
        inc_fg |-> "#e8f4fd", inc_edge |-> "#1a6fa0", inc_lw |-> 200,
        side_fg |-> "#ffffff", side_edge |-> "#c0c8d4",
        text_col |-> "#1a2a40", title_col |-> "#1a2a40", arrow_col |-> "#4a5a70",
        shadow |-> TRUE, phase_bands |-> FALSE ],
    green |->
      [ name |-> "Forest Green", bg_col |-> "#f0fff5",
        boxstyle |-> "round,pad=0.03", box_lw |-> 150, arrow_lw |-> 130,
        box_fg |-> "#e8f8ee", box_edge |-> "#1a6a38",
        inc_fg |-> "#c3f0d0", inc_edge |-> "#0d5228", inc_lw |-> 200,
        side_fg |-> "#f0ffe8", side_edge |-> "#3a8a50",
        text_col |-> "#0a2010", title_col |-> "#1a4a28", arrow_col |-> "#1a6a38",
        shadow |-> FALSE, phase_bands |-> FALSE ],
    warm |->
      [ name |-> "Warm Amber", bg_col |-> "#fffef0",
        boxstyle |-> "round,pad=0.03", box_lw |-> 150, arrow_lw |-> 130,
        box_fg |-> "#fff8e8", box_edge |-> "#c05800",
        inc_fg |-> "#ffe5b8", inc_edge |-> "#a84000", inc_lw |-> 200,
        side_fg |-> "#fff3d8", side_edge |-> "#d07000",
        text_col |-> "#3a1800", title_col |-> "#6a2800", arrow_col |-> "#c05800",
        shadow |-> FALSE, phase_bands |-> FALSE ],
    corporate |->
      [ name |-> "Corporate", bg_col |-> "#f7f8fb",
        boxstyle |-> "square,pad=0.04", box_lw |-> 150, arrow_lw |-> 150,
        box_fg |-> "#eef0f8", box_edge |-> "#2a3460",
        inc_fg |-> "#dce4f5", inc_edge |-> "#1a2450", inc_lw |-> 250,
        side_fg |-> "#e8eafa", side_edge |-> "#505a80",
        text_col |-> "#1a2040", title_col |-> "#1a2040", arrow_col |-> "#2a3460",
        shadow |-> TRUE, phase_bands |-> TRUE,
        phase_cols |-> <<"#2a3460", "#1a5a8a", "#1a6a50", "#5a2a7a", "#1a6a38">> ],
    purple |->
      [ name |-> "Royal Purple", bg_col |-> "#faf0ff",
        boxstyle |-> "round,pad=0.03", box_lw |-> 150, arrow_lw |-> 130,
        box_fg |-> "#f5e8ff", box_edge |-> "#6a1a9a",
        inc_fg |-> "#e0c8ff", inc_edge |-> "#4a0a7a", inc_lw |-> 200,
        side_fg |-> "#f8f0ff", side_edge |-> "#8a3ac0",
        text_col |-> "#2a0a40", title_col |-> "#3a0a60", arrow_col |-> "#6a1a9a",
        shadow |-> FALSE, phase_bands |-> FALSE ],
    teal |->
      [ name |-> "Ocean Teal", bg_col |-> "#f0fbfb",
        boxstyle |-> "round,pad=0.03", box_lw |-> 150, arrow_lw |-> 130,
        box_fg |-> "#e0f5f5", box_edge |-> "#1a7a7a",
        inc_fg |-> "#c0eeee", inc_edge |-> "#0a6060", inc_lw |-> 200,
        side_fg |-> "#eaf8f8", side_edge |-> "#2a9090",
        text_col |-> "#0a2828", title_col |-> "#0a4848", arrow_col |-> "#1a7a7a",
        shadow |-> FALSE, phase_bands |-> FALSE ],
    orange_flow |->
      [ name |-> "Orange Flow", bg_col |-> "white",
        boxstyle |-> "square,pad=0.03", box_lw |-> 120, arrow_lw |-> 100,
        box_fg |-> "#ffffff", box_edge |-> "#333333",
        inc_fg |-> "#fff8f0", inc_edge |-> "#e8960c", inc_lw |-> 200,
        side_fg |-> "#ffffff", side_edge |-> "#333333",
        text_col |-> "#111111", title_col |-> "#e8960c", arrow_col |-> "#333333",
        shadow |-> FALSE, phase_bands |-> TRUE,
        phase_cols |-> <<"#2196f3", "#2196f3", "#2196f3", "#2196f3", "#e8960c">>,
        font_scale |-> 10 ] ]

STYLE_KEYS ==
  <<"classic", "academic", "colorful", "minimal", "bold_navy", "shadowed",
    "green", "warm", "corporate", "purple", "teal", "orange_flow">>


(***************************************************************************)
(* generate_diagram: style-derived locals                                  *)
(***************************************************************************)
bg(s) == get(s, "bg_col", "white")

TC(s) == get(s, "text_col", "#222222")

\* max(2.0, arrow_lw * 1.30), in 1/10000 pt
ALW(s) == Max(20000, get(s, "arrow_lw", 150) * 130)

AC(s) == s["arrow_col"]

FS(s) == get(s, "font_scale", 10)

\* 14.0 * FS, in 1/1000 pt
UFS(s) == 1400 * FS(s)

PREV_ACC == "#6c5ce7"

DB_ACC(s) == s["box_edge"]

OTHER_ACC == "#e07b54"

INC_ACC == "#00a878"

SIDE_ACC == "#d63031"

\* pbc = st.get("phase_box_cols"); None is modelled as the empty list
pbc(s) == get(s, "phase_box_cols", <<>>)

\* i is the Python (0-based) index
mfg(s, i) == IF pbc(s) # <<>> /\ i < Len(pbc(s)) THEN pbc(s)[i + 1].fg ELSE s["box_fg"]

medge(s, i) == IF pbc(s) # <<>> /\ i < Len(pbc(s)) THEN pbc(s)[i + 1].edge ELSE s["box_edge"]

(***************************************************************************)
(* Column geometry and vertical positions                                  *)
(***************************************************************************)
PX == 2000
PW == 3200
DX == 8500
DW == 4800
OX == 16800
OW == 3500
DEX == 13000
DEW == 3500
OEX == 20700
OEW == 2500
TX == 11000
TW == 6500

Y_ID == 20000
Y_PRE == 18000
Y_SC == 15800
Y_SCX == 14000
\* the reports-sought level placed just under the screened level
Y_SOU_close == Y_SC - 800

Y_SOU == 12000
Y_NR == 10600
Y_ASS == 9000
Y_EX == 7300
Y_INC == 5500
Y_TOT == 3500
Y_AN == 1300

H_STD == 750

HDR_Y == 21150
HDR_H == 440

AX1 == 5500
AX2 == 16500
AW == 5500

(***************************************************************************)
(* Drawing primitives.  site names the call site and is not drawn.         *)
(***************************************************************************)
Line(txt, bold, fs) == [txt |-> txt, bold |-> bold, fs |-> fs]

draw_box(site, x, y, w, h, lines, facecolor, edgecolor, lw, text_col, accent_col) ==
  [ site |-> site, x |-> x, y |-> y, w |-> w, h |-> h, lines |-> lines,
    facecolor |-> facecolor, edgecolor |-> edgecolor, lw |-> lw,
    text_col |-> text_col, accent_col |-> accent_col ]

darrow(site, x1, y1, x2, y2, color, lw) ==
  [ site |-> site, kind |-> "darrow", x1 |-> x1, y1 |-> y1, x2 |-> x2, y2 |-> y2,
    color |-> color, lw |-> lw ]

hline(site, x1, x2, y, color, lw) ==
  [ site |-> site, kind |-> "hline", x1 |-> x1, y1 |-> y, x2 |-> x2, y2 |-> y,
    color |-> color, lw |-> lw ]

NoStyle == [name |-> "unset"]

(***************************************************************************)
(* What one draw_box call adds to the axes, in the order of its add_patch  *)
(* and text calls.  b is the call (its arguments), s its st argument       *)
(* (NoStyle for st=None).  Patch corners are in 1/1000 drawing unit, alpha *)
(* in 1/100, the accent bar's width in 1/1000000 drawing unit.  A text's   *)
(* height is the exact fraction num / den of 1/1000 drawing unit.          *)
(***************************************************************************)
\* bs = st["boxstyle"] if st else "round,pad=0.05"
boxstyle_of(s) == IF s # NoStyle THEN s["boxstyle"] ELSE "round,pad=0.05"

\* sh_alpha = 0.40 if (st and st.get("shadow")) else 0.18
sh_alpha(s) == IF s # NoStyle /\ get(s, "shadow", FALSE) THEN 40 ELSE 18

sh_col(s) == IF s # NoStyle /\ get(s, "shadow", FALSE) THEN "#7a8fa8" ELSE "#b0c0cc"

\* the drop shadow, offset by (+0.10, -0.12)
sp(b, s) ==
  [ kind |-> "shadow", site |-> b.site, x0 |-> b.x - b.w \div 2 + 100,
    y0 |-> b.y - b.h \div 2 - 120, w |-> b.w, h |-> b.h, boxstyle |-> boxstyle_of(s),
    linewidth |-> 0, facecolor |-> sh_col(s), alpha |-> sh_alpha(s), zorder |-> 2 ]

\* the main box
box_patch(b, s) ==
  [ kind |-> "box", site |-> b.site, x0 |-> b.x - b.w \div 2, y0 |-> b.y - b.h \div 2,
    w |-> b.w, h |-> b.h, boxstyle |-> boxstyle_of(s), linewidth |-> b.lw,
    edgecolor |-> b.edgecolor, facecolor |-> b.facecolor, zorder |-> 3 ]

\* bar_w = min(0.22, w * 0.068)
bar_w(w) == IF 220000 <= 68 * w THEN 220000 ELSE 68 * w

\* the left accent bar, drawn if accent_col is given and not empty
bar(b) ==
  IF b.accent_col # "None" /\ b.accent_col # ""
    THEN << [ kind |-> "bar", site |-> b.site, x0 |-> b.x - b.w \div 2 + 6,
              y0 |-> b.y - b.h \div 2 + 12, bar_w |-> bar_w(b.w), h |-> b.h - 24,
              facecolor |-> b.accent_col, zorder |-> 4 ] >>
    ELSE <<>>

\* ty_num counting the lines from 0: ty = y + h/2 - step * i
ty_num_from_zero(b, k) == (2 * b.y + b.h) * (Len(b.lines) + 1) - 2 * b.h * (k - 1)

\* ty = y + h/2 - step * (i + 1) with step = h / (n + 1), over 2 * (n + 1);
\* k = i + 1 is the line's position counted from 1
ty_num(b, k) == (2 * b.y + b.h) * (Len(b.lines) + 1) - 2 * b.h * k

ty_den(b) == 2 * (Len(b.lines) + 1)

\* for i, (txt, bold, fs) in enumerate(lines): ax.text(x, ty, txt, ...)
text_lines(b) ==
  [ k \in 1 .. Len(b.lines) |->
      [ kind |-> "text", site |-> b.site, x |-> b.x, num |-> ty_num(b, k),
        den |-> ty_den(b), txt |-> b.lines[k].txt, fontsize |-> b.lines[k].fs,
        fontweight |-> IF b.lines[k].bold THEN "bold" ELSE "normal",
        color |-> b.text_col, zorder |-> 5 ] ]

\* the artists of one call
artists(b, s) == << sp(b, s), box_patch(b, s) >> \o bar(b) \o text_lines(b)

\* the artists of a run of calls with the same st
RECURSIVE emit(_, _)
emit(calls, s) ==
  IF calls = <<>> THEN <<>> ELSE artists(Head(calls), s) \o emit(Tail(calls), s)

(***************************************************************************)
(* Field names built by f-strings                                          *)
(***************************************************************************)
Key(prefix, i, suffix) == prefix \o ToString(i) \o suffix


(***************************************************************************)
(* Slot loops: for i in range(1, 7) ... append a line when both the name   *)
(* and the count are non-empty after strip()                               *)
(***************************************************************************)
\* db_lines with the slot test weakened to "name or count"
RECURSIVE db_lines_either(_, _, _)
db_lines_either(m, s, i) ==
  IF i >= 7 THEN <<>>
  ELSE LET nm == strip(get(m, Key("db", i, "_name"), EMPTY))
           vl == strip(get(m, Key("db", i, "_count"), EMPTY))
       IN  (IF nm # <<>> \/ vl # <<>>
              THEN << Line(<<"  * ">> \o nm \o <<": ">> \o vl, FALSE, UFS(s)) >>
              ELSE <<>>)
           \o db_lines_either(m, s, i + 1)

\* db_lines (src/app.py 405-410) followed by the rows built from it (412)
RECURSIVE db_lines(_, _, _)
db_lines(m, s, i) ==
  IF i >= 7 THEN <<>>
  ELSE LET nm == strip(get(m, Key("db", i, "_name"), EMPTY))
           vl == strip(get(m, Key("db", i, "_count"), EMPTY))
       IN  (IF nm # <<>> /\ vl # <<>>
              THEN << Line(<<"  * ">> \o nm \o <<": ">> \o vl, FALSE, UFS(s)) >>
              ELSE <<>>)
           \o db_lines(m, s, i + 1)

\* screening exclusion codes EX1..EX6 (src/app.py 470-474)
RECURSIVE scx_lines(_, _, _)
scx_lines(m, s, i) ==
  IF i >= 7 THEN <<>>
  ELSE LET r == strip(get(m, Key("sc_exc_code", i, ""), EMPTY))
           v == strip(get(m, Key("sc_exc_code", i, "_n"), EMPTY))
       IN  (IF r # <<>> /\ v # <<>>
              THEN << Line(<<"  EX", ToString(i), ": ">> \o r \o <<" (n = ">> \o v \o <<")">>,
                           FALSE, UFS(s)) >>
              ELSE <<>>)
           \o scx_lines(m, s, i + 1)

\* database eligibility exclusion reasons, with the legacy aliases (524-528)
RECURSIVE db_ex_lines(_, _, _)
db_ex_lines(m, s, i) ==
  IF i >= 7 THEN <<>>
  ELSE LET r == strip(get(m, Key("db_exc_reason", i, ""),
                          get(m, Key("exc_reason", i, ""), EMPTY)))
           v == strip(get(m, Key("db_exc_reason", i, "_n"),
                          get(m, Key("exc_reason", i, "_n"), EMPTY)))
       IN  (IF r # <<>> /\ v # <<>>
              THEN << Line(<<"  * ">> \o r \o <<": ">> \o v, FALSE, UFS(s)) >>
              ELSE <<>>)
           \o db_ex_lines(m, s, i + 1)

\* other-methods eligibility exclusion reasons (537-541)
RECURSIVE other_ex_lines(_, _, _)
other_ex_lines(m, s, i) ==
  IF i >= 5 THEN <<>>
  ELSE LET r == strip(get(m, Key("other_exc_reason", i, ""), EMPTY))
           v == strip(get(m, Key("other_exc_reason", i, "_n"), EMPTY))
       IN  (IF r # <<>> /\ v # <<>>
              THEN << Line(<<"  * ">> \o r \o <<": ">> \o v, FALSE, UFS(s)) >>
              ELSE <<>>)
           \o other_ex_lines(m, s, i + 1)

(***************************************************************************)
(* Adaptive heights                                                        *)
(***************************************************************************)
\* h_db_id without the max(H_STD, ...) clamp
h_db_id_unclamped(n) == 280 * n + 400

\* max(H_STD, 0.28 * len(db_id_rows) + 0.4)
h_db_id(n) == Max(H_STD, 280 * n + 400)

\* max(0.9, 0.28 * len(pre_rows) + 0.3)
h_pre(n) == Max(900, 280 * n + 300)

\* max(H_STD, 0.28 * len(sc_rows) + 0.3)
h_sc(n) == Max(H_STD, 280 * n + 300)

\* max(H_STD, 0.28 * len(scx_rows) + 0.3)
h_scx(n) == Max(H_STD, 280 * n + 300)

\* max(H_STD, 0.28 * len(db_ex_rows) + 0.3)
h_db_ex(n) == Max(H_STD, 280 * n + 300)

\* max(H_STD, 0.28 * len(other_ex_rows) + 0.3)
h_other_ex(n) == Max(H_STD, 280 * n + 300)

(***************************************************************************)
(* Formatted rows of the boxes whose line count depends on the input       *)
(***************************************************************************)
\* prev_n falling back on the legacy field "included" of the Database stream
prev_n_legacy(m) == or(get(m, "prev_included", get(m, "included", ZERO)), ZERO)

prev_n(m) == or(get(m, "prev_included", ZERO), ZERO)

\* db_id_rows reading the legacy field whenever the primary one is empty
db_id_rows_legacy_if_empty(m, s) ==
  LET db_id == or(or(get(m, "db_identified", EMPTY), get(m, "total_identified", ZERO)), ZERO)
  IN  << Line(<<"Records identified from databases (n = ">> \o db_id \o <<"):">>,
              TRUE, UFS(s)) >>
      \o db_lines(m, s, 1)

db_id_rows(m, s) ==
  LET db_id == or(get(m, "db_identified", get(m, "total_identified", ZERO)), ZERO)
  IN  << Line(<<"Records identified from databases (n = ">> \o db_id \o <<"):">>,
              TRUE, UFS(s)) >>
      \o db_lines(m, s, 1)

pre_rows(m, s) ==
  LET db_dup    == or(get(m, "db_duplicates", get(m, "duplicates", ZERO)), ZERO)
      db_auto   == strip(get(m, "db_automation_exc", get(m, "auto_excluded", EMPTY)))
      db_oth_ex == strip(get(m, "db_other_exc", get(m, "other_removed", EMPTY)))
  IN  << Line(<<"Records removed before screening:">>, TRUE, UFS(s)),
         Line(<<"  * Duplicates (n = ">> \o db_dup \o <<")">>, FALSE, UFS(s)) >>
      \o (IF db_auto # <<>>
            THEN << Line(<<"  * Automation tools (n = ">> \o db_auto \o <<")">>,
                         FALSE, UFS(s)) >>
            ELSE <<>>)
      \o (IF db_oth_ex # <<>>
            THEN << Line(<<"  * Other reasons (n = ">> \o db_oth_ex \o <<")">>,
                         FALSE, UFS(s)) >>
            ELSE <<>>)

sc_rows(m, s) ==
  LET db_sc    == or(get(m, "db_screened", get(m, "screened", ZERO)), ZERO)
      sc_inc   == strip(get(m, "sc_included", EMPTY))
      sc_exc   == strip(get(m, "sc_excluded", EMPTY))
      conf_tot == strip(get(m, "conflict_total", EMPTY))
  IN  << Line(<<"Records screened (n = ">> \o db_sc \o <<")">>, TRUE, UFS(s)) >>
      \o (IF sc_inc # <<>>
            THEN << Line(<<"  * Agreed - Included: ">> \o sc_inc, FALSE, UFS(s)) >>
            ELSE <<>>)
      \o (IF sc_exc # <<>>
            THEN << Line(<<"  * Agreed - Excluded: ">> \o sc_exc, FALSE, UFS(s)) >>
            ELSE <<>>)
      \o (IF conf_tot # <<>> /\ conf_tot # ZERO
            THEN << Line(<<"  * Conflicts (n = ">> \o conf_tot \o <<"):">>, FALSE, UFS(s)),
                    Line(<<"       o Included after discussion: ">>
                           \o get(m, "conflict_inc", ZERO), FALSE, UFS(s)),
                    Line(<<"       o Excluded after discussion: ">>
                           \o get(m, "conflict_exc", ZERO), FALSE, UFS(s)) >>
            ELSE <<>>)

scx_rows(m, s) ==
  LET db_exc_sc == or(get(m, "db_exc_screened", get(m, "exc_screened", ZERO)), ZERO)
  IN  << Line(<<"Records excluded at screening (n = ">> \o db_exc_sc \o <<")">>,
              TRUE, UFS(s)) >>
      \o scx_lines(m, s, 1)

db_ex_rows(m, s) ==
  LET db_exc_ft == or(get(m, "db_exc_reasons_total", get(m, "exc_fulltext", ZERO)), ZERO)
  IN  << Line(<<"Reports excluded (n = ">> \o db_exc_ft \o <<")">>, TRUE, UFS(s)) >>
      \o db_ex_lines(m, s, 1)

other_nr(m) == or(get(m, "other_not_retrieved", EMPTY), EMPTY)

other_exc_ft(m) == or(get(m, "other_exc_reasons_total", EMPTY), EMPTY)

\* other_ex_drawn with the total defaulting to "0" as the Database total does
other_ex_drawn_zero_default(m) ==
  or(get(m, "other_exc_reasons_total", ZERO), ZERO) # <<>>
  \/ strip(get(m, "other_exc_reason1", EMPTY)) # <<>>

\* if other_exc_ft or d.get("other_exc_reason1", "").strip()
other_ex_drawn(m) ==
  other_exc_ft(m) # <<>> \/ strip(get(m, "other_exc_reason1", EMPTY)) # <<>>

other_ex_rows(m, s) ==
  << Line(<<"Reports excluded (n = ">> \o or(other_exc_ft(m), <<"?">>) \o <<")">>,
          TRUE, UFS(s)) >>
  \o other_ex_lines(m, s, 1)


(***************************************************************************)
(* generate_diagram, section by section: the boxes each section draws      *)
(***************************************************************************)
\* resolve handing over a profile without the included-box line width
resolve_without_inc_lw(m) ==
  LET style_key == get(m, "style", "classic")
      s == IF style_key \in DOMAIN registry.DIAGRAM_STYLES
             THEN registry.DIAGRAM_STYLES[style_key]
             ELSE registry.DIAGRAM_STYLES["classic"]
  IN  [ k \in DOMAIN s \ {"inc_lw"} |-> s[k] ]

\* resolve with the first registered key after classic as the fallback profile
resolve_wrong_fallback(m) ==
  LET style_key == get(m, "style", "classic")
  IN  IF style_key \in DOMAIN registry.DIAGRAM_STYLES
        THEN registry.DIAGRAM_STYLES[style_key]
        ELSE registry.DIAGRAM_STYLES[STYLE_KEYS[2]]

\* style_key = d.get("style", "classic"); st = DIAGRAM_STYLES.get(style_key, classic)
resolve(m) ==
  LET style_key == get(m, "style", "classic")
  IN  IF style_key \in DOMAIN registry.DIAGRAM_STYLES
        THEN registry.DIAGRAM_STYLES[style_key]
        ELSE registry.DIAGRAM_STYLES["classic"]

header_banners(s) ==
  LET hdr(hx, hw, label, hcol) ==
        [ kind |-> "header", x0 |-> hx - hw \div 2, y0 |-> HDR_Y - HDR_H \div 2,
          w |-> hw, h |-> HDR_H, tx |-> hx, ty |-> HDR_Y, label |-> label,
          col |-> hcol, fs |-> (UFS(s) * 58) \div 100 ]
  IN  << hdr(PX, PW, "PREVIOUS STUDIES", PREV_ACC),
         hdr(DX, DW, "DATABASES / REGISTERS", DB_ACC(s)),
         hdr(OX, OW, "OTHER METHODS", OTHER_ACC) >>

identification_row(m, s) ==
  LET other_id == or(get(m, "other_identified", get(m, "other_id_total", ZERO)), ZERO)
  IN  << draw_box("prev_id", PX, Y_ID, PW, H_STD,
                  << Line(<<"Studies from previous version">>, FALSE, UFS(s)),
                     Line(<<"of review (n = ">> \o prev_n(m) \o <<")">>, FALSE, UFS(s)) >>,
                  mfg(s, 0), medge(s, 0), s["box_lw"], TC(s), PREV_ACC),
         draw_box("db_id", DX, Y_ID, DW, h_db_id(Len(db_id_rows(m, s))), db_id_rows(m, s),
                  mfg(s, 0), medge(s, 0), s["box_lw"], TC(s), DB_ACC(s)),
         draw_box("other_id", OX, Y_ID, OW, H_STD,
                  << Line(<<"Records from other methods">>, FALSE, UFS(s)),
                     Line(<<"(n = ">> \o other_id \o <<")">>, FALSE, UFS(s)) >>,
                  mfg(s, 0), medge(s, 0), s["box_lw"], TC(s), OTHER_ACC) >>

pre_screening(m, s) ==
  << draw_box("pre", DEX, Y_PRE, DEW, h_pre(Len(pre_rows(m, s))), pre_rows(m, s),
              s["side_fg"], s["side_edge"], s["box_lw"], TC(s), SIDE_ACC) >>

screened(m, s) ==
  << draw_box("sc", DX, Y_SC, DW, h_sc(Len(sc_rows(m, s))), sc_rows(m, s),
              mfg(s, 1), medge(s, 1), s["box_lw"], TC(s), DB_ACC(s)),
     draw_box("scx", DEX, Y_SCX, DEW, h_scx(Len(scx_rows(m, s))), scx_rows(m, s),
              s["side_fg"], s["side_edge"], s["box_lw"], TC(s), SIDE_ACC) >>

\* other_nr_box drawn at the eligibility-exclusion level
other_nr_box_misaligned(m, s) ==
  IF other_nr(m) # <<>>
    THEN << draw_box("other_nr", OEX, Y_EX, OEW, H_STD,
                     << Line(<<"Not retrieved (n = ">> \o other_nr(m) \o <<")">>,
                             FALSE, UFS(s)) >>,
                     s["side_fg"], s["side_edge"], s["box_lw"], TC(s), SIDE_ACC) >>
    ELSE <<>>

\* the optional Other-Methods "not retrieved" side box (src/app.py 501-505)
other_nr_box(m, s) ==
  IF other_nr(m) # <<>>
    THEN << draw_box("other_nr", OEX, Y_NR, OEW, H_STD,
                     << Line(<<"Not retrieved (n = ">> \o other_nr(m) \o <<")">>,
                             FALSE, UFS(s)) >>,
                     s["side_fg"], s["side_edge"], s["box_lw"], TC(s), SIDE_ACC) >>
    ELSE <<>>

sought(m, s) ==
  LET db_sou    == or(get(m, "db_sought", get(m, "retrieval", ZERO)), ZERO)
      other_sou == or(get(m, "other_sought", ZERO), ZERO)
      db_nr     == or(get(m, "db_not_retrieved", get(m, "not_retrieved", ZERO)), ZERO)
  IN  << draw_box("db_sou", DX, Y_SOU, DW, H_STD,
                  << Line(<<"Reports sought for retrieval (n = ">> \o db_sou \o <<")">>,
                          TRUE, UFS(s)) >>,
                  mfg(s, 2), medge(s, 2), s["box_lw"], TC(s), DB_ACC(s)),
         draw_box("other_sou", OX, Y_SOU, OW, H_STD,
                  << Line(<<"Reports sought (n = ">> \o other_sou \o <<")">>, TRUE, UFS(s)) >>,
                  mfg(s, 2), medge(s, 2), s["box_lw"], TC(s), OTHER_ACC),
         draw_box("db_nr", DEX, Y_NR, DEW, H_STD,
                  << Line(<<"Reports not retrieved (n = ">> \o db_nr \o <<")">>,
                          FALSE, UFS(s)) >>,
                  s["side_fg"], s["side_edge"], s["box_lw"], TC(s), SIDE_ACC) >>
      \o other_nr_box(m, s)

\* other_ex_box with other_exc_reason1 tested without strip()
other_ex_box_unstripped(m, s) ==
  IF other_exc_ft(m) # <<>> \/ get(m, "other_exc_reason1", EMPTY) # <<>>
    THEN << draw_box("other_ex", OEX, Y_EX, OEW, h_other_ex(Len(other_ex_rows(m, s))),
                     other_ex_rows(m, s),
                     s["side_fg"], s["side_edge"], s["box_lw"], TC(s), SIDE_ACC) >>
    ELSE <<>>

\* the optional Other-Methods eligibility exclusions side box (src/app.py 535-545)
other_ex_box(m, s) ==
  IF other_ex_drawn(m)
    THEN << draw_box("other_ex", OEX, Y_EX, OEW, h_other_ex(Len(other_ex_rows(m, s))),
                     other_ex_rows(m, s),
                     s["side_fg"], s["side_edge"], s["box_lw"], TC(s), SIDE_ACC) >>
    ELSE <<>>

assessed(m, s) ==
  LET db_ass    == or(get(m, "db_assessed", get(m, "eligibility", ZERO)), ZERO)
      other_ass == or(get(m, "other_assessed", ZERO), ZERO)
  IN  << draw_box("db_ass", DX, Y_ASS, DW, H_STD,
                  << Line(<<"Reports assessed for eligibility (n = ">> \o db_ass \o <<")">>,
                          TRUE, UFS(s)) >>,
                  mfg(s, 3), medge(s, 3), s["box_lw"], TC(s), DB_ACC(s)),
         draw_box("other_ass", OX, Y_ASS, OW, H_STD,
                  << Line(<<"Assessed (n = ">> \o other_ass \o <<")">>, TRUE, UFS(s)) >>,
                  mfg(s, 3), medge(s, 3), s["box_lw"], TC(s), OTHER_ACC),
         draw_box("db_ex", DEX, Y_EX, DEW, h_db_ex(Len(db_ex_rows(m, s))), db_ex_rows(m, s),
                  s["side_fg"], s["side_edge"], s["box_lw"], TC(s), SIDE_ACC) >>
      \o other_ex_box(m, s)

included(m, s) ==
  LET db_inc    == or(get(m, "db_included", get(m, "included", ZERO)), ZERO)
      other_inc == or(get(m, "other_included", ZERO), ZERO)
      h_inc     == H_STD
  IN  << draw_box("prev_inc", PX, Y_INC, PW, h_inc,
                  << Line(<<"Previous studies included">>, FALSE, UFS(s)),
                     Line(<<"(n = ">> \o prev_n(m) \o <<")">>, FALSE, UFS(s)) >>,
                  s["inc_fg"], s["inc_edge"], s["inc_lw"], TC(s), INC_ACC),
         draw_box("db_inc", DX, Y_INC, DW, h_inc,
                  << Line(<<"Studies included from databases (n = ">> \o db_inc \o <<")">>,
                          TRUE, UFS(s)) >>,
                  s["inc_fg"], s["inc_edge"], s["inc_lw"], TC(s), INC_ACC),
         draw_box("other_inc", OX, Y_INC, OW, h_inc,
                  << Line(<<"Studies from other methods (n = ">> \o other_inc \o <<")">>,
                          TRUE, UFS(s)) >>,
                  s["inc_fg"], s["inc_edge"], s["inc_lw"], TC(s), INC_ACC) >>

\* total_included with the merge box sized by the adaptive rule for two lines
total_included_tall(m, s) ==
  LET total_n == or(get(m, "total_included", ZERO), ZERO)
      h_tot   == Max(H_STD, 280 * 2 + 400)
  IN  << draw_box("total", TX, Y_TOT, TW, h_tot,
                  << Line(<<"Total studies included in review (n = ">> \o total_n \o <<")">>,
                          TRUE, UFS(s)) >>,
                  s["inc_fg"], s["inc_edge"], s["inc_lw"] + 50, TC(s), INC_ACC) >>

total_included(m, s) ==
  LET total_n == or(get(m, "total_included", ZERO), ZERO)
      h_tot   == H_STD
  IN  << draw_box("total", TX, Y_TOT, TW, h_tot,
                  << Line(<<"Total studies included in review (n = ">> \o total_n \o <<")">>,
                          TRUE, UFS(s)) >>,
                  s["inc_fg"], s["inc_edge"], s["inc_lw"] + 50, TC(s), INC_ACC) >>

\* an_label with the count tested and shown without strip()
an_label_unstripped(m, k) ==
  LET an_txt == or(strip(get(m, Key("analysis_", k, "_text"), EMPTY)),
                   <<"Analysis Branch " \o ToString(k)>>)
      an_n   == get(m, Key("analysis_", k, "_n"), EMPTY)
  IN  an_txt \o (IF an_n # <<>> THEN <<"\n(n = ">> \o an_n \o <<")">> ELSE <<>>)

\* an{k}_label (src/app.py 586-591)
an_label(m, k) ==
  LET an_txt == or(strip(get(m, Key("analysis_", k, "_text"), EMPTY)),
                   <<"Analysis Branch " \o ToString(k)>>)
      an_n   == strip(get(m, Key("analysis_", k, "_n"), EMPTY))
  IN  an_txt \o (IF an_n # <<>> THEN <<"\n(n = ">> \o an_n \o <<")">> ELSE <<>>)

analysis_branches(m, s) ==
  LET h_an == H_STD
  IN  << draw_box("an1", AX1, Y_AN, AW, h_an, << Line(an_label(m, 1), FALSE, UFS(s)) >>,
                  mfg(s, 3), medge(s, 3), s["box_lw"], TC(s), INC_ACC),
         draw_box("an2", AX2, Y_AN, AW, h_an, << Line(an_label(m, 2), FALSE, UFS(s)) >>,
                  mfg(s, 3), medge(s, 3), s["box_lw"], TC(s), INC_ACC) >>


(***************************************************************************)
(* Connectors                                                              *)
(***************************************************************************)
\* heights of the two adaptive boxes of the Database main column, as drawn
h_db_id_of(m, s) == h_db_id(Len(db_id_rows(m, s)))

\* h_sc_of taken as the standard height, whatever the screened box shows
h_sc_of_std(m, s) == H_STD

h_sc_of(m, s) == h_sc(Len(sc_rows(m, s)))

main_arrows(m, s) ==
  LET my_prv == Y_INC - H_STD \div 2
      my_oth == Y_INC - H_STD \div 2
  IN  << darrow("prev", PX, Y_ID - H_STD \div 2, PX, Y_INC + H_STD \div 2, AC(s), ALW(s)),
         darrow("db_id_sc", DX, Y_ID - h_db_id_of(m, s) \div 2,
                DX, Y_SC + h_sc_of(m, s) \div 2, AC(s), ALW(s)),
         darrow("db_sc_sou", DX, Y_SC - h_sc_of(m, s) \div 2,
                DX, Y_SOU + H_STD \div 2, AC(s), ALW(s)),
         darrow("db_sou_ass", DX, Y_SOU - H_STD \div 2, DX, Y_ASS + H_STD \div 2, AC(s), ALW(s)),
         darrow("db_ass_inc", DX, Y_ASS - H_STD \div 2, DX, Y_INC + H_STD \div 2, AC(s), ALW(s)),
         darrow("other_id_sou", OX, Y_ID - H_STD \div 2, OX, Y_SOU + H_STD \div 2, AC(s), ALW(s)),
         darrow("other_sou_ass", OX, Y_SOU - H_STD \div 2, OX, Y_ASS + H_STD \div 2, AC(s), ALW(s)),
         darrow("other_ass_inc", OX, Y_ASS - H_STD \div 2, OX, Y_INC + H_STD \div 2, AC(s), ALW(s)),
         hline("prev_tot", PX, TX - TW \div 2, my_prv, AC(s), ALW(s)),
         darrow("prev_tot", TX - TW \div 2, my_prv, TX, Y_TOT + H_STD \div 2, AC(s), ALW(s)),
         darrow("db_tot", DX, Y_INC - H_STD \div 2, DX, Y_TOT + H_STD \div 2, AC(s), ALW(s)),
         hline("db_tot", DX, TX - TW \div 2 + (DX - (TX - TW \div 2)),
               Y_TOT + H_STD \div 2, AC(s), ALW(s)),
         hline("other_tot", OX, TX + TW \div 2, my_oth, AC(s), ALW(s)),
         darrow("other_tot", TX + TW \div 2, my_oth, TX, Y_TOT + H_STD \div 2, AC(s), ALW(s)),
         darrow("tot_an1", TX, Y_TOT - H_STD \div 2, AX1, Y_AN + H_STD \div 2, AC(s), ALW(s)),
         darrow("tot_an2", TX, Y_TOT - H_STD \div 2, AX2, Y_AN + H_STD \div 2, AC(s), ALW(s)) >>

DB_LE == DX + DW \div 2

DEX_LE == DEX - DEW \div 2

OX_LE == OX + OW \div 2

OEX_LE == OEX - OEW \div 2

\* branch_right as one arrow from the main box's edge straight to the side box
branch_right_direct(site, s, main_x, mx_right, side_x, sx_left, main_cy, side_cy) ==
  << darrow(site, mx_right, main_cy, sx_left, side_cy, AC(s), ALW(s)) >>

branch_right(site, s, main_x, mx_right, side_x, sx_left, main_cy, side_cy) ==
  LET mid_x == (mx_right + sx_left) \div 2
  IN  << hline(site, mx_right, mid_x, main_cy, AC(s), ALW(s)),
         darrow(site, mid_x, main_cy, sx_left, side_cy, AC(s), ALW(s)) >>

\* other_nr_elbow guarded by the condition of the exclusions elbow
other_nr_elbow_copied(m, s) ==
  IF other_ex_drawn(m)
    THEN branch_right("other_nr_elbow", s, OX, OX_LE, OEX, OEX_LE,
                      (Y_SOU + Y_ASS) \div 2, Y_NR)
    ELSE <<>>

\* if other_nr: branch_right(...)  (src/app.py 668-670)
other_nr_elbow(m, s) ==
  IF other_nr(m) # <<>>
    THEN branch_right("other_nr_elbow", s, OX, OX_LE, OEX, OEX_LE,
                      (Y_SOU + Y_ASS) \div 2, Y_NR)
    ELSE <<>>

\* other_ex_elbow with other_exc_reason1 tested without strip()
other_ex_elbow_unstripped(m, s) ==
  IF other_exc_ft(m) # <<>> \/ get(m, "other_exc_reason1", EMPTY) # <<>>
    THEN branch_right("other_ex_elbow", s, OX, OX_LE, OEX, OEX_LE,
                      (Y_ASS + Y_INC) \div 2, Y_EX)
    ELSE <<>>

\* if other_exc_ft or d.get("other_exc_reason1", "").strip(): branch_right(...)  (672-674)
other_ex_elbow(m, s) ==
  IF other_ex_drawn(m)
    THEN branch_right("other_ex_elbow", s, OX, OX_LE, OEX, OEX_LE,
                      (Y_ASS + Y_INC) \div 2, Y_EX)
    ELSE <<>>

side_connectors(m, s) ==
  branch_right("db_pre_elbow", s, DX, DB_LE, DEX, DEX_LE, (Y_ID + Y_SC) \div 2, Y_PRE)
  \o branch_right("db_scx_elbow", s, DX, DB_LE, DEX, DEX_LE, (Y_SC + Y_SOU) \div 2, Y_SCX)
  \o branch_right("db_nr_elbow", s, DX, DB_LE, DEX, DEX_LE, (Y_SOU + Y_ASS) \div 2, Y_NR)
  \o branch_right("db_ex_elbow", s, DX, DB_LE, DEX, DEX_LE, (Y_ASS + Y_INC) \div 2, Y_EX)
  \o other_nr_elbow(m, s)
  \o other_ex_elbow(m, s)

(***************************************************************************)
(* Phase-band labels and title                                             *)
(***************************************************************************)
phases(m, s) ==
  << <<"IDENTIFICATION", Y_ID, h_db_id_of(m, s)>>,
     <<"SCREENING", Y_SC, h_sc_of(m, s)>>,
     <<"RETRIEVAL", Y_SOU, H_STD>>,
     <<"ELIGIBILITY", Y_ASS, H_STD>>,
     <<"INCLUDED", Y_TOT, H_STD>> >>

\* for (lbl, cy, ph), col in zip(phases, ph_cols): shadow pill, pill, label
RECURSIVE band_items(_, _, _, _)
band_items(ph, cols, s, i) ==
  IF i > Min(Len(ph), Len(cols)) THEN <<>>
  ELSE LET lbl == ph[i][1]
           cy  == ph[i][2]
           hh  == ph[i][3]
       IN  << [ kind |-> "band_shadow", x0 |-> 90, y0 |-> cy - hh \div 2 - 60,
                w |-> 700, h |-> hh + 120, tx |-> 0, ty |-> 0, label |-> "",
                col |-> "#000000", fs |-> 0 ],
              [ kind |-> "band", x0 |-> 80, y0 |-> cy - hh \div 2 - 50,
                w |-> 680, h |-> hh + 100, tx |-> 420, ty |-> cy, label |-> lbl,
                col |-> cols[i], fs |-> (UFS(s) * 37) \div 100 ] >>
           \o band_items(ph, cols, s, i + 1)

\* phase_bands drawn whatever the profile's flag says
phase_bands_unconditional(m, s) ==
  band_items(phases(m, s),
             get(s, "phase_cols", <<"#1a3a5c", "#1a3a5c", "#1a3a5c", "#1a3a5c", "#1a3a5c">>),
             s, 1)

phase_bands(m, s) ==
  IF get(s, "phase_bands", FALSE)
    THEN band_items(phases(m, s),
                    get(s, "phase_cols", <<"#1a3a5c", "#1a3a5c", "#1a3a5c", "#1a3a5c", "#1a3a5c">>),
                    s, 1)
    ELSE <<>>

title_y == 21680

title(s) ==
  << [ kind |-> "title_rule", x0 |-> 800, y0 |-> title_y, w |-> 7000 - 800, h |-> 0,
       tx |-> 0, ty |-> 0, label |-> "", col |-> s["title_col"], fs |-> 0 ],
     [ kind |-> "title_rule", x0 |-> 15000, y0 |-> title_y, w |-> 21200 - 15000, h |-> 0,
       tx |-> 0, ty |-> 0, label |-> "", col |-> s["title_col"], fs |-> 0 ],
     [ kind |-> "title", x0 |-> 0, y0 |-> 0, w |-> 0, h |-> 0,
       tx |-> 11000, ty |-> title_y, label |-> "PRISMA 2020 Flow Diagram",
       col |-> s["title_col"], fs |-> 1600 * FS(s) ] >>

(***************************************************************************)
(* State machine.  requests holds the field mappings still to be rendered  *)
(* (one generate_diagram call each); results holds, per finished call, the *)
(* mapping and what the call drew (the content that is then encoded).      *)
(* d, st, boxes, conns and decor are the locals of the running call.       *)
(* registry is the module-level style registry (DIAGRAM_STYLES and          *)
(* STYLE_KEYS, assigned once at import) and plt the lazily imported         *)
(* matplotlib global; both are shared by every call.  parked holds the      *)
(* frames (the locals) of the calls of other threads that are suspended.    *)
(***************************************************************************)
NoMapping == [k \in {} |-> EMPTY]

\* Call that stores the profile it resolved as the registry's default profile
Call_storing_default ==
  /\ pc = "idle"
  /\ requests # <<>>
  /\ d' = Head(requests)
  /\ requests' = Tail(requests)
  /\ st' = resolve(Head(requests))
  /\ registry' = [registry EXCEPT !.DIAGRAM_STYLES["classic"] = resolve(Head(requests))]
  /\ boxes' = <<>>
  /\ conns' = <<>>
  /\ decor' = <<>>
  /\ ax' = <<>>
  /\ pc' = "headers"
  /\ plt' = "pyplot"
  /\ UNCHANGED <<web, parked, results>>

\* Call that draws on the canvas of the previous call instead of a fresh one
Call_stale_canvas ==
  /\ pc = "idle"
  /\ requests # <<>>
  /\ d' = Head(requests)
  /\ requests' = Tail(requests)
  /\ st' = resolve(Head(requests))
  /\ pc' = "headers"
  /\ plt' = "pyplot"
  /\ UNCHANGED <<web, registry, parked, results, boxes, conns, decor, ax>>

\* generate_diagram entry: style resolution and a fresh canvas (321-347)
Call ==
  /\ pc = "idle"
  /\ requests # <<>>
  /\ d' = Head(requests)
  /\ requests' = Tail(requests)
  /\ st' = resolve(Head(requests))
  /\ boxes' = <<>>
  /\ conns' = <<>>
  /\ decor' = <<>>
  /\ ax' = <<>>
  /\ pc' = "headers"
  /\ plt' = "pyplot"
  /\ UNCHANGED <<web, registry, parked, results>>

Headers ==
  /\ pc = "headers"
  /\ decor' = decor \o header_banners(st)
  /\ ax' = ax \o header_banners(st)
  /\ pc' = "identification"
  /\ UNCHANGED <<web, registry, plt, parked, requests, results, d, st, boxes, conns>>

Identification ==
  /\ pc = "identification"
  /\ boxes' = boxes \o identification_row(d, st)
  /\ ax' = ax \o emit(identification_row(d, st), st)
  /\ pc' = "prescreening"
  /\ UNCHANGED <<web, registry, plt, parked, requests, results, d, st, conns, decor>>

PreScreening ==
  /\ pc = "prescreening"
  /\ boxes' = boxes \o pre_screening(d, st)
  /\ ax' = ax \o emit(pre_screening(d, st), st)
  /\ pc' = "screened"
  /\ UNCHANGED <<web, registry, plt, parked, requests, results, d, st, conns, decor>>

Screened ==
  /\ pc = "screened"
  /\ boxes' = boxes \o screened(d, st)
  /\ ax' = ax \o emit(screened(d, st), st)
  /\ pc' = "sought"
  /\ UNCHANGED <<web, registry, plt, parked, requests, results, d, st, conns, decor>>

Sought ==
  /\ pc = "sought"
  /\ boxes' = boxes \o sought(d, st)
  /\ ax' = ax \o emit(sought(d, st), st)
  /\ pc' = "assessed"
  /\ UNCHANGED <<web, registry, plt, parked, requests, results, d, st, conns, decor>>

Assessed ==
  /\ pc = "assessed"
  /\ boxes' = boxes \o assessed(d, st)
  /\ ax' = ax \o emit(assessed(d, st), st)
  /\ pc' = "included"
  /\ UNCHANGED <<web, registry, plt, parked, requests, results, d, st, conns, decor>>

Included ==
  /\ pc = "included"
  /\ boxes' = boxes \o included(d, st)
  /\ ax' = ax \o emit(included(d, st), st)
  /\ pc' = "total"
  /\ UNCHANGED <<web, registry, plt, parked, requests, results, d, st, conns, decor>>

TotalIncluded ==
  /\ pc = "total"
  /\ boxes' = boxes \o total_included(d, st)
  /\ ax' = ax \o emit(total_included(d, st), st)
  /\ pc' = "analysis"
  /\ UNCHANGED <<web, registry, plt, parked, requests, results, d, st, conns, decor>>

Analysis ==
  /\ pc = "analysis"
  /\ boxes' = boxes \o analysis_branches(d, st)
  /\ ax' = ax \o emit(analysis_branches(d, st), st)
  /\ pc' = "arrows"
  /\ UNCHANGED <<web, registry, plt, parked, requests, results, d, st, conns, decor>>

MainArrows ==
  /\ pc = "arrows"
  /\ conns' = conns \o main_arrows(d, st)
  /\ ax' = ax \o main_arrows(d, st)
  /\ pc' = "side"
  /\ UNCHANGED <<web, registry, plt, parked, requests, results, d, st, boxes, decor>>

SideConnectors ==
  /\ pc = "side"
  /\ conns' = conns \o side_connectors(d, st)
  /\ ax' = ax \o side_connectors(d, st)
  /\ pc' = "bands"
  /\ UNCHANGED <<web, registry, plt, parked, requests, results, d, st, boxes, decor>>

PhaseBands ==
  /\ pc = "bands"
  /\ decor' = decor \o phase_bands(d, st)
  /\ ax' = ax \o phase_bands(d, st)
  /\ pc' = "title"
  /\ UNCHANGED <<web, registry, plt, parked, requests, results, d, st, boxes, conns>>

Title ==
  /\ pc = "title"
  /\ decor' = decor \o title(st)
  /\ ax' = ax \o title(st)
  /\ pc' = "encode"
  /\ UNCHANGED <<web, registry, plt, parked, requests, results, d, st, boxes, conns>>

\* savefig / close / return (712-717): the call hands back what it drew
Encode ==
  /\ pc = "encode"
  /\ results' = Append(results, [ d |-> d, bg |-> bg(st), style |-> st["name"],
                                  boxes |-> boxes, conns |-> conns, decor |-> decor ])
  /\ pc' = "idle"
  /\ UNCHANGED <<web, registry, plt, parked, requests, d, st, boxes, conns, decor, ax>>

Next ==
  \/ Call
  \/ Headers
  \/ Identification
  \/ PreScreening
  \/ Screened
  \/ Sought
  \/ Assessed
  \/ Included
  \/ TotalIncluded
  \/ Analysis
  \/ MainArrows
  \/ SideConnectors
  \/ PhaseBands
  \/ Title
  \/ Encode

(***************************************************************************)
(* Concurrent calls.  Every name generate_diagram assigns is a local of    *)
(* the call, so another thread's call runs on its own frame; a thread      *)
(* switch sets the running frame aside and takes up a suspended frame or   *)
(* a new call.  registry and plt are the only names the frames share.      *)
(***************************************************************************)
Frame ==
  [ pc |-> pc, d |-> d, st |-> st, boxes |-> boxes, conns |-> conns, decor |-> decor,
    ax |-> ax ]

\* the running call is suspended between two of its sections
Yield ==
  /\ pc # "idle"
  /\ parked' = parked (+) SetToBag({Frame})
  /\ pc' = "idle"
  /\ d' = NoMapping
  /\ st' = NoStyle
  /\ boxes' = <<>>
  /\ conns' = <<>>
  /\ decor' = <<>>
  /\ ax' = <<>>
  /\ UNCHANGED <<web, registry, plt, requests, results>>

\* a suspended call is taken up again where it stopped
Resume ==
  /\ pc = "idle"
  /\ \E f \in BagToSet(parked) :
       /\ parked' = parked (-) SetToBag({f})
       /\ pc' = f.pc
       /\ d' = f.d
       /\ st' = f.st
       /\ boxes' = f.boxes
       /\ conns' = f.conns
       /\ decor' = f.decor
       /\ ax' = f.ax
  /\ UNCHANGED <<web, registry, plt, requests, results>>

NextConc ==
  \/ Next
  \/ Yield
  \/ Resume


(***************************************************************************)
(* Inputs: the field mappings the checks render                            *)
(***************************************************************************)
\* most slots of one box that the sparse slot inputs fill
MaxFilled == 2

\* most generate_diagram calls in one run of the paired inputs
MaxCalls == 3

\* marks a field that is left out of the mapping
ABSENT == <<"<absent>">>

Restrict(f) == [k \in {x \in DOMAIN f : f[x] # ABSENT} |-> f[k]]

\* every mapping that gives each key of keys one option of opts
AllMaps(keys, opts) == { Restrict(f) : f \in [keys -> opts] }

NumOpts == { ABSENT, <<>>, <<" ">>, <<"0">>, <<"3">>, <<" ", "3">> }

TrigOpts == { ABSENT, <<>>, <<" ">>, <<"1", "2">> }

TextOpts == { ABSENT, <<>>, <<" ">>, <<"x">>, <<" ", "x", "\t">> }

AliasOpts == { ABSENT, <<>>, <<"3">> }

\* the key patterns of the four slotted boxes and their caps
SlotBoxes ==
  { [np |-> "db", ns |-> "_name", cp |-> "db", cs |-> "_count", cap |-> 6],
    [np |-> "sc_exc_code", ns |-> "", cp |-> "sc_exc_code", cs |-> "_n", cap |-> 6],
    [np |-> "db_exc_reason", ns |-> "", cp |-> "db_exc_reason", cs |-> "_n", cap |-> 6],
    [np |-> "other_exc_reason", ns |-> "", cp |-> "other_exc_reason", cs |-> "_n", cap |-> 4] }

SlotShapes == {"both", "padded", "name_only", "count_only", "blank_count"}

slot_name(i) == <<"n", ToString(i)>>

slot_count(i) == <<ToString(i), "0">>

SlotMap(box, i, shape) ==
  LET nk == Key(box.np, i, box.ns)
      ck == Key(box.cp, i, box.cs)
  IN  CASE shape = "both"        -> (nk :> slot_name(i)) @@ (ck :> slot_count(i))
        [] shape = "padded"      -> (nk :> (<<" ">> \o slot_name(i) \o <<" ">>))
                                    @@ (ck :> (<<"\t">> \o slot_count(i)))
        [] shape = "name_only"   -> (nk :> slot_name(i))
        [] shape = "count_only"  -> (ck :> slot_count(i))
        [] shape = "blank_count" -> (nk :> slot_name(i)) @@ (ck :> <<" ">>)

RECURSIVE BuildSlots(_, _, _)
BuildSlots(box, f, i) ==
  IF i > box.cap THEN NoMapping
  ELSE (IF i \in DOMAIN f THEN SlotMap(box, i, f[i]) ELSE NoMapping)
       @@ BuildSlots(box, f, i + 1)

\* at most MaxFilled slots of the box filled, in every shape
SparseSlots(box) ==
  UNION { { BuildSlots(box, f, 1) : f \in [S -> SlotShapes] } :
          S \in { T \in SUBSET (1 .. box.cap) : Cardinality(T) <= MaxFilled } }

\* every slot of the box filled
FullSlots(box) == BuildSlots(box, [i \in 1 .. box.cap |-> "both"], 1)

SlotInputs ==
  UNION { SparseSlots(box) \cup {FullSlots(box)} : box \in SlotBoxes }
  \cup { m @@ ("other_exc_reasons_total" :> <<"5">>) :
         m \in SparseSlots(CHOOSE b \in SlotBoxes : b.cap = 4) }

\* primary / legacy field names of the aliased counts
AliasPairs ==
  { <<"db_identified", "total_identified">>, <<"db_duplicates", "duplicates">>,
    <<"db_screened", "screened">>, <<"db_exc_screened", "exc_screened">>,
    <<"db_sought", "retrieval">>, <<"db_not_retrieved", "not_retrieved">>,
    <<"db_assessed", "eligibility">>, <<"db_included", "included">>,
    <<"db_exc_reasons_total", "exc_fulltext">>, <<"other_identified", "other_id_total">> }

CountInputs ==
  AllMaps({"conflict_total", "conflict_inc", "conflict_exc"}, NumOpts)
  \cup AllMaps({"conflict_total"}, {<<"0", "0">>, <<" ", "0", "\t">>, <<"0", ".", "0">>})
  \cup AllMaps({"sc_included", "sc_excluded"}, NumOpts)
  \cup AllMaps({"other_not_retrieved", "other_exc_reasons_total",
                "other_exc_reason1", "other_exc_reason1_n"}, TrigOpts)
  \cup AllMaps({"db_duplicates", "db_automation_exc", "db_other_exc"}, NumOpts \ {<<"0">>})
  \cup UNION { AllMaps({p[1], p[2]}, NumOpts \ {<<"0">>}) : p \in AliasPairs }
  \cup UNION { AllMaps({k}, NumOpts) :
               k \in {"prev_included", "other_sought", "other_assessed",
                      "other_included", "total_included"} }
  \cup AllMaps({"db_exc_reason1", "exc_reason1", "db_exc_reason1_n", "exc_reason1_n"},
               AliasOpts)
  \cup AllMaps({"analysis_1_text", "analysis_1_n"}, TextOpts)
  \cup AllMaps({"analysis_2_text", "analysis_2_n"}, TextOpts)

\* the batch driver's sample mapping (src/generate_all_styles.py 30-56)
SAMPLE_DATA ==
  [ total_identified |-> <<"1250">>,
    db1_name |-> <<"PubMed">>, db1_count |-> <<"520">>,
    db2_name |-> <<"Scopus">>, db2_count |-> <<"380">>,
    db3_name |-> <<"Web", " ", "of", " ", "Science">>, db3_count |-> <<"250">>,
    db4_name |-> <<"IEEE", " ", "Xplore">>, db4_count |-> <<"100">>,
    db5_name |-> <<>>, db5_count |-> <<>>,
    db6_name |-> <<>>, db6_count |-> <<>>,
    screened |-> <<"980">>, sc_included |-> <<"620">>, sc_excluded |-> <<"310">>,
    conflict_total |-> <<"50">>, conflict_inc |-> <<"30">>, conflict_exc |-> <<"20">>,
    duplicates |-> <<"270">>, exc_screened |-> <<"330">>, retrieval |-> <<"650">>,
    not_retrieved |-> <<"45">>, eligibility |-> <<"605">>, exc_fulltext |-> <<"280">>,
    exc_reason1 |-> <<"Wrong", " ", "population">>, exc_reason1_n |-> <<"95">>,
    exc_reason2 |-> <<"Wrong", " ", "outcome">>, exc_reason2_n |-> <<"75">>,
    exc_reason3 |-> <<"No", " ", "full", " ", "text">>, exc_reason3_n |-> <<"60">>,
    exc_reason4 |-> <<"Duplicate", " ", "data">>, exc_reason4_n |-> <<"30">>,
    exc_reason5 |-> <<"Wrong", " ", "study", " ", "design">>, exc_reason5_n |-> <<"20">>,
    included |-> <<"325">> ]

\* style keys tried: every registered key, and keys that are not registered
UnknownStyles == {"", "bogus", "Classic", " classic"}

WithStyle(m, key) == [k \in DOMAIN m \cup {"style"} |-> IF k = "style" THEN key ELSE m[k]]

StyleInputs ==
  { WithStyle(m, key) : m \in {NoMapping, SAMPLE_DATA},
                        key \in DOMAIN DIAGRAM_STYLES \cup UnknownStyles }
  \cup {SAMPLE_DATA}

\* k slots of every slotted box filled, and k optional lines of the
\* pre-screening and screened boxes
Level(k) ==
  BuildSlots([np |-> "db", ns |-> "_name", cp |-> "db", cs |-> "_count", cap |-> Min(k, 6)],
             [i \in 1 .. Min(k, 6) |-> "both"], 1)
  @@ BuildSlots([np |-> "sc_exc_code", ns |-> "", cp |-> "sc_exc_code", cs |-> "_n",
                 cap |-> Min(k, 6)], [i \in 1 .. Min(k, 6) |-> "both"], 1)
  @@ BuildSlots([np |-> "db_exc_reason", ns |-> "", cp |-> "db_exc_reason", cs |-> "_n",
                 cap |-> Min(k, 6)], [i \in 1 .. Min(k, 6) |-> "both"], 1)
  @@ BuildSlots([np |-> "other_exc_reason", ns |-> "", cp |-> "other_exc_reason", cs |-> "_n",
                 cap |-> Min(k, 4)], [i \in 1 .. Min(k, 4) |-> "both"], 1)
  @@ ("other_exc_reasons_total" :> <<"9">>)
  @@ (IF k >= 1 THEN ("db_automation_exc" :> <<"4">>) @@ ("sc_included" :> <<"5">>)
                ELSE NoMapping)
  @@ (IF k >= 2 THEN ("db_other_exc" :> <<"6">>) @@ ("sc_excluded" :> <<"7">>)
                ELSE NoMapping)
  @@ (IF k >= 3 THEN ("conflict_total" :> <<"8">>) ELSE NoMapping)

\* every slot and every optional line filled, and both Other-Methods side boxes
FullInputs == { Level(6) @@ ("other_not_retrieved" :> <<"1", "2">>) }

Inputs == SlotInputs \cup CountInputs \cup StyleInputs \cup FullInputs

(***************************************************************************)
(* The web application's store.  A user name, a password or an e-mail      *)
(* address is a sequence of characters.  The tables are sets of rows;      *)
(* seq is sqlite's AUTOINCREMENT counter of the diagrams table (the         *)
(* highest id ever given).  The title's time stamp and created_at are left *)
(* out.                                                                     *)
(***************************************************************************)
\* werkzeug's generate_password_hash / check_password_hash (the salt is left out)
generate_password_hash(password) == [method |-> "pbkdf2", of |-> password]

check_password_hash(pwhash, password) == pwhash = generate_password_hash(password)

DEMO == <<"d", "e", "m", "o">>

\* init_db: both tables created, the demo account seeded
init_db ==
  [ users    |-> { [ id |-> 1, username |-> DEMO, email |-> <<"demo@gmail.com">>,
                     password_hash |->
                       generate_password_hash(<<"d", "e", "m", "o", "1", "2", "3", "4">>) ] },
    diagrams |-> {},
    seq      |-> 0 ]

\* the browsers that talk to the application
Clients == {"c1", "c2"}

\* an empty session cookie
NoSession == [k \in {} |-> 0]

NoRequest == [c |-> "none", route |-> "none", method |-> "none", form |-> NoSession, id |-> 0]

NoResponse == [kind |-> "none"]

\* the process after import: the registry assigned, matplotlib not yet
\* imported, no call running
Loaded ==
  /\ registry = [DIAGRAM_STYLES |-> DIAGRAM_STYLES, STYLE_KEYS |-> STYLE_KEYS]
  /\ plt = "None"
  /\ parked = EmptyBag
  /\ results = <<>>
  /\ pc = "idle"
  /\ d = NoMapping
  /\ st = NoStyle
  /\ boxes = <<>>
  /\ conns = <<>>
  /\ decor = <<>>
  /\ ax = <<>>
  /\ db = init_db
  /\ session = [c \in Clients |-> NoSession]
  /\ request = NoRequest
  /\ response = NoResponse

Init ==
  /\ requests \in { <<m>> : m \in Inputs }
  /\ Loaded

Spec == Init /\ [][Next]_vars


(***************************************************************************)
(* Paired inputs: runs of up to MaxCalls calls over one small family, so   *)
(* that the results of different calls can be compared                     *)
(***************************************************************************)
StyleFamily ==
  { NoMapping, WithStyle(NoMapping, ""), WithStyle(NoMapping, "classic"),
    WithStyle(NoMapping, "academic") }

SampleStyleFamily ==
  { SAMPLE_DATA, WithStyle(SAMPLE_DATA, "bogus"), WithStyle(SAMPLE_DATA, "classic"),
    WithStyle(SAMPLE_DATA, "colorful") }

HeightFamily == { Level(k) : k \in {0, 1, 3, 6} }

OtherFamily ==
  AllMaps({"other_not_retrieved"}, {ABSENT, <<>>, <<" ">>, <<"1", "2">>})
  \cup { "other_exc_reasons_total" :> <<"5">> }

SampleOtherFamily ==
  { SAMPLE_DATA, SAMPLE_DATA @@ ("other_not_retrieved" :> <<"1", "2">>),
    SAMPLE_DATA @@ ("other_exc_reason1" :> <<"x">>),
    SAMPLE_DATA @@ ("other_exc_reason1" :> <<"x">>) @@ ("other_not_retrieved" :> <<"1", "2">>) }

Families == {StyleFamily, SampleStyleFamily, HeightFamily, OtherFamily, SampleOtherFamily}

Runs(family) == UNION { [1 .. n -> family] : n \in 1 .. MaxCalls }

InitPairs ==
  /\ requests \in UNION { Runs(family) : family \in Families }
  /\ Loaded

SpecPairs == InitPairs /\ [][Next]_vars

(***************************************************************************)
(* Concurrent inputs: up to MaxThreads calls in flight at once             *)
(***************************************************************************)
\* most calls in flight at once
MaxThreads == 2

ConcFamily == { SAMPLE_DATA, WithStyle(SAMPLE_DATA, "academic"), WithStyle(NoMapping, "bogus") }

InitConc ==
  /\ requests \in UNION { [1 .. n -> ConcFamily] : n \in 1 .. MaxThreads }
  /\ Loaded

SpecConc == InitConc /\ [][NextConc]_vars

(***************************************************************************)
(* Batch inputs: generate_all_styles.main renders one copy of its data     *)
(* per key of STYLE_KEYS, in order, with d["style"] = key                  *)
(***************************************************************************)
main(data) == [ i \in DOMAIN STYLE_KEYS |-> WithStyle(data, STYLE_KEYS[i]) ]

BatchData == { SAMPLE_DATA, NoMapping, Level(6), Level(1) @@ ("other_not_retrieved" :> <<" ">>) }

InitBatch ==
  /\ requests \in { main(data) : data \in BatchData }
  /\ Loaded

SpecBatch == InitBatch /\ [][Next]_vars


(***************************************************************************)
(* Properties                                                              *)
(***************************************************************************)
\* what a finished call drew, without the mapping it was given
Plan(r) == [ bg |-> r.bg, style |-> r.style, boxes |-> r.boxes,
             conns |-> r.conns, decor |-> r.decor ]

BoxesAt(bs, site) == SelectSeq(bs, LAMBDA b : b.site = site)

\* C1: determinism at the plan level: any two finished generate_diagram calls
\* that were given the same field mapping (style key included) drew the same
\* sequence of boxes (centre, size, lines, colours) and the same sequence of
\* connectors, whatever was rendered before or in between.
C1_Determinism ==
  \A i, j \in DOMAIN results :
    results[i].d = results[j].d => Plan(results[i]) = Plan(results[j])

\* C1 witness: the same mapping rendered twice with a different mapping
\* rendered in between, each call having drawn its boxes and connectors.
C1_Witness ==
  /\ pc = "idle"
  /\ Len(results) = 3
  /\ results[1].d = results[3].d
  /\ results[1].d # results[2].d
  /\ Plan(results[1]) # Plan(results[2])
  /\ Len(results[3].boxes) >= 18
  /\ Len(results[3].conns) >= 24

\* the style key d.get("style", "classic") of a mapping
StyleKeyOf(m) == IF "style" \in DOMAIN m THEN m["style"] ELSE "classic"

Unregistered(m) == "style" \notin DOMAIN m \/ m["style"] \notin DOMAIN DIAGRAM_STYLES

\* C2: style fallback: a call whose mapping has no "style", or a "style" that
\* is not a key of DIAGRAM_STYLES (the empty string included), resolves the
\* classic profile and draws exactly what the call draws for the same mapping
\* with style = "classic".
C2_StyleFallback ==
  /\ \A i \in DOMAIN results :
       Unregistered(results[i].d) =>
         /\ results[i].style = "Classic Blue"
         /\ results[i].bg = "white"
  /\ \A i, j \in DOMAIN results :
       ( /\ Unregistered(results[i].d)
         /\ results[j].d = WithStyle(results[i].d, "classic") )
       => Plan(results[i]) = Plan(results[j])

\* C2 witness: one run rendered a mapping with the empty style key and the
\* same mapping with style = "classic".
C2_Witness ==
  /\ pc = "idle"
  /\ \E i, j \in DOMAIN results :
       /\ "style" \in DOMAIN results[i].d
       /\ results[i].d["style"] = ""
       /\ results[j].d = WithStyle(results[i].d, "classic")
       /\ Len(results[i].boxes) >= 18
  /\ \E i, j \in DOMAIN results :
       /\ "style" \notin DOMAIN results[i].d
       /\ results[j].d = WithStyle(results[i].d, "classic")

\* the phase rows of C3 and the y-level each is drawn at (20.0, 12.0, 10.6,
\* 9.0, 7.3 and 5.5 drawing units)
C3_Rows ==
  << [sites |-> {"prev_id", "db_id", "other_id"}, y |-> 20000],
     [sites |-> {"db_sou", "other_sou"}, y |-> 12000],
     [sites |-> {"db_nr", "other_nr"}, y |-> 10600],
     [sites |-> {"db_ass", "other_ass"}, y |-> 9000],
     [sites |-> {"db_ex", "other_ex"}, y |-> 7300],
     [sites |-> {"prev_inc", "db_inc", "other_inc"}, y |-> 5500] >>

\* C3: row alignment: the boxes of one phase have the same centre y in every
\* stream that draws the phase (identification and included in all three
\* streams; sought, assessed, not-retrieved and eligibility exclusions in the
\* Database and Other streams), and that y is a fixed level, the same for
\* every mapping and style.
C3_RowAlignment ==
  \A k \in DOMAIN C3_Rows :
    \A i, j \in DOMAIN boxes :
      /\ boxes[i].site \in C3_Rows[k].sites => boxes[i].y = C3_Rows[k].y
      /\ (boxes[i].site \in C3_Rows[k].sites /\ boxes[j].site \in C3_Rows[k].sites)
           => boxes[i].y = boxes[j].y

\* C3 witness: a finished render that drew every box of every row, the two
\* optional Other-Methods side boxes included, with an adaptive height in play.
C3_Witness ==
  /\ pc = "idle"
  /\ results # <<>>
  /\ \A k \in DOMAIN C3_Rows : \A site \in C3_Rows[k].sites : BoxesAt(boxes, site) # <<>>
  /\ BoxesAt(boxes, "other_ex")[1].h > 750

\* the boxes whose line count depends on the input
AdaptiveSites == {"db_id", "pre", "sc", "scx", "db_ex", "other_ex"}

\* C4: height monotonicity: a box whose line count depends on the input is
\* never lower than the standard height 0.75 and never lower than the same
\* box of another render that shows no more lines.
C4_HeightMonotone ==
  /\ \A i \in DOMAIN boxes :
       boxes[i].site \in AdaptiveSites => (boxes[i].h >= 750 /\ boxes[i].h > 0)
  /\ \A i, j \in DOMAIN results :
       \A p \in DOMAIN results[i].boxes, q \in DOMAIN results[j].boxes :
         LET a == results[i].boxes[p]
             b == results[j].boxes[q]
         IN  ( /\ a.site \in AdaptiveSites
               /\ a.site = b.site
               /\ Len(a.lines) <= Len(b.lines) )
             => a.h <= b.h

\* C4 witness: two renders of one run in which every adaptive box shows more
\* lines and is strictly higher in the second.
C4_Witness ==
  /\ pc = "idle"
  /\ \E i, j \in DOMAIN results :
       \A site \in AdaptiveSites :
         /\ BoxesAt(results[i].boxes, site) # <<>>
         /\ BoxesAt(results[j].boxes, site) # <<>>
         /\ Len(BoxesAt(results[i].boxes, site)[1].lines)
              < Len(BoxesAt(results[j].boxes, site)[1].lines)
         /\ BoxesAt(results[i].boxes, site)[1].h < BoxesAt(results[j].boxes, site)[1].h


\* a field's value, the empty string when the field is absent
Field(m, k) == IF k \in DOMAIN m THEN m[k] ELSE <<>>

\* blank after trimming: nothing but whitespace
Blank(v) == \A i \in DOMAIN v : v[i] \in {" ", "\t"}

\* the slotted boxes of C5: call site, cap, header chunk, the fields of slot
\* i (the database reasons fall back to their legacy names when the primary
\* field is absent) and the line a filled slot i shows
C5_Boxes ==
  { [site |-> "db_id", cap |-> 6, header |-> "Records identified from databases (n = "],
    [site |-> "scx", cap |-> 6, header |-> "Records excluded at screening (n = "],
    [site |-> "db_ex", cap |-> 6, header |-> "Reports excluded (n = "],
    [site |-> "other_ex", cap |-> 4, header |-> "Reports excluded (n = "] }

C5_Name(m, site, i) ==
  CASE site = "db_id"    -> Field(m, <<"db1_name", "db2_name", "db3_name",
                                       "db4_name", "db5_name", "db6_name">>[i])
    [] site = "scx"      -> Field(m, <<"sc_exc_code1", "sc_exc_code2", "sc_exc_code3",
                                       "sc_exc_code4", "sc_exc_code5", "sc_exc_code6">>[i])
    [] site = "db_ex"    ->
         LET pk == <<"db_exc_reason1", "db_exc_reason2", "db_exc_reason3",
                     "db_exc_reason4", "db_exc_reason5", "db_exc_reason6">>[i]
             lk == <<"exc_reason1", "exc_reason2", "exc_reason3",
                     "exc_reason4", "exc_reason5", "exc_reason6">>[i]
         IN  IF pk \in DOMAIN m THEN m[pk] ELSE Field(m, lk)
    [] site = "other_ex" -> Field(m, <<"other_exc_reason1", "other_exc_reason2",
                                       "other_exc_reason3", "other_exc_reason4">>[i])

C5_Count(m, site, i) ==
  CASE site = "db_id"    -> Field(m, <<"db1_count", "db2_count", "db3_count",
                                       "db4_count", "db5_count", "db6_count">>[i])
    [] site = "scx"      -> Field(m, <<"sc_exc_code1_n", "sc_exc_code2_n", "sc_exc_code3_n",
                                       "sc_exc_code4_n", "sc_exc_code5_n", "sc_exc_code6_n">>[i])
    [] site = "db_ex"    ->
         LET pk == <<"db_exc_reason1_n", "db_exc_reason2_n", "db_exc_reason3_n",
                     "db_exc_reason4_n", "db_exc_reason5_n", "db_exc_reason6_n">>[i]
             lk == <<"exc_reason1_n", "exc_reason2_n", "exc_reason3_n",
                     "exc_reason4_n", "exc_reason5_n", "exc_reason6_n">>[i]
         IN  IF pk \in DOMAIN m THEN m[pk] ELSE Field(m, lk)
    [] site = "other_ex" -> Field(m, <<"other_exc_reason1_n", "other_exc_reason2_n",
                                       "other_exc_reason3_n", "other_exc_reason4_n">>[i])

C5_SlotLine(m, site, i) ==
  LET nm == strip(C5_Name(m, site, i))
      vl == strip(C5_Count(m, site, i))
  IN  IF site = "scx"
        THEN <<"  EX", <<"1", "2", "3", "4", "5", "6">>[i], ": ">> \o nm \o <<" (n = ">> \o vl \o <<")">>
        ELSE <<"  * ">> \o nm \o <<": ">> \o vl

\* the slots that contribute a line
C5_Filled(m, bx) ==
  { i \in 1 .. bx.cap : ~Blank(C5_Name(m, bx.site, i)) /\ ~Blank(C5_Count(m, bx.site, i)) }

\* C5: slot expansion: a slotted box shows its header and then exactly one
\* line per slot whose name/reason and count are both non-blank after
\* trimming, in increasing slot order; a slot with only one of the two shows
\* nothing, and a box never shows more slot lines than its cap (6, 6, 6, 4).
C5_SlotExpansion ==
  \A bx \in C5_Boxes :
    \A p \in DOMAIN boxes :
      boxes[p].site = bx.site =>
        LET lines  == boxes[p].lines
            filled == C5_Filled(d, bx)
        IN  /\ Len(lines) = 1 + Cardinality(filled)
            /\ Len(lines) - 1 <= bx.cap
            /\ lines[1].txt[1] = bx.header
            /\ lines[1].bold
            /\ \A i \in filled :
                 LET k == 1 + Cardinality({ j \in filled : j <= i })
                 IN  /\ lines[k].txt = C5_SlotLine(d, bx.site, i)
                     /\ ~lines[k].bold

\* C5 witness: a finished render whose database box shows, after the header,
\* one line for a later padded slot while an earlier slot that has only its
\* name shows nothing.
C5_Witness ==
  /\ pc = "idle"
  /\ results # <<>>
  /\ \E i, j \in 1 .. 6 :
       /\ i < j
       /\ ~Blank(Field(d, <<"db1_name", "db2_name", "db3_name",
                            "db4_name", "db5_name", "db6_name">>[i]))
       /\ <<"db1_count", "db2_count", "db3_count",
            "db4_count", "db5_count", "db6_count">>[i] \notin DOMAIN d
       /\ C5_Filled(d, [site |-> "db_id", cap |-> 6]) = {j}
       /\ Head(Field(d, <<"db1_name", "db2_name", "db3_name",
                          "db4_name", "db5_name", "db6_name">>[j])) = " "
  /\ Len(BoxesAt(boxes, "db_id")[1].lines) = 2

\* C5 witness of the cap: a box that shows all of its slots.
C5_WitnessCap ==
  /\ pc = "idle"
  /\ results # <<>>
  /\ Len(BoxesAt(boxes, "db_ex")[1].lines) = 7

\* a connector routed to the Other-Methods side-exclusion column: it ends on
\* the left edge (x = 20.7 - 2.5/2) of that column
C6_ToOtherSide(c) == c.kind = "darrow" /\ c.x2 = 19450

\* C6 as stated: with other_not_retrieved blank and other_exc_reason1 blank
\* (read narrowly: absent or empty), whatever the other fields hold, no
\* connector is routed to the Other-Methods side-exclusion column.
C6_Original ==
  ( /\ Field(d, "other_not_retrieved") = <<>>
    /\ Field(d, "other_exc_reason1") = <<>> )
  => \A i \in DOMAIN conns : ~C6_ToOtherSide(conns[i])

\* C6 as amended: with other_not_retrieved absent or empty,
\* other_exc_reasons_total absent or empty, and other_exc_reason1 blank after
\* trimming, whatever the other fields hold, no connector is routed to the
\* Other-Methods side-exclusion column.
C6_SideOmission ==
  ( /\ Field(d, "other_not_retrieved") = <<>>
    /\ Field(d, "other_exc_reasons_total") = <<>>
    /\ Blank(Field(d, "other_exc_reason1")) )
  => \A i \in DOMAIN conns : ~C6_ToOtherSide(conns[i])

\* C6 witness: a finished render, all connectors drawn, of a mapping that
\* leaves the three trigger fields empty or whitespace-only and fills another
\* Other-Methods field.
C6_Witness ==
  /\ pc = "idle"
  /\ results # <<>>
  /\ Len(conns) >= 24
  /\ Field(d, "other_not_retrieved") = <<>>
  /\ "other_exc_reasons_total" \in DOMAIN d
  /\ d["other_exc_reasons_total"] = <<>>
  /\ Field(d, "other_exc_reason1") = <<" ">>
  /\ Field(d, "other_exc_reason1_n") = <<"1", "2">>


\* the side-exclusion boxes and the field that triggers each (the Database
\* fields with their legacy names)
C7_Trigger(m, site) ==
  CASE site = "pre"      -> IF "db_duplicates" \in DOMAIN m THEN m["db_duplicates"]
                            ELSE Field(m, "duplicates")
    [] site = "scx"      -> IF "db_exc_screened" \in DOMAIN m THEN m["db_exc_screened"]
                            ELSE Field(m, "exc_screened")
    [] site = "db_nr"    -> IF "db_not_retrieved" \in DOMAIN m THEN m["db_not_retrieved"]
                            ELSE Field(m, "not_retrieved")
    [] site = "db_ex"    -> IF "db_exc_reasons_total" \in DOMAIN m THEN m["db_exc_reasons_total"]
                            ELSE Field(m, "exc_fulltext")
    [] site = "other_nr" -> Field(m, "other_not_retrieved")
    [] site = "other_ex" -> Field(m, "other_exc_reasons_total") \o Field(m, "other_exc_reason1")

C7_SideSites == {"pre", "scx", "db_nr", "db_ex", "other_nr", "other_ex"}

\* C7 as stated: every side-exclusion box is drawn only when its triggering
\* count/reason field is non-blank after trimming.
C7_Original ==
  \A p \in DOMAIN boxes :
    boxes[p].site \in C7_SideSites => ~Blank(C7_Trigger(d, boxes[p].site))

\* C7 as amended: the Other-Methods not-retrieved box is drawn only when
\* other_not_retrieved is a non-empty string (it is not trimmed), and the
\* Other-Methods exclusions box only when other_exc_reasons_total is non-empty
\* or other_exc_reason1 is non-blank after trimming; the four Database side
\* boxes are drawn in every render, whatever their fields hold.
C7_SideBoxTriggers ==
  /\ \A p \in DOMAIN boxes :
       /\ boxes[p].site = "other_nr" => Field(d, "other_not_retrieved") # <<>>
       /\ boxes[p].site = "other_ex" =>
            \/ Field(d, "other_exc_reasons_total") # <<>>
            \/ ~Blank(Field(d, "other_exc_reason1"))
  /\ (pc = "idle" /\ results # <<>>) =>
       \A site \in {"pre", "scx", "db_nr", "db_ex"} : Len(BoxesAt(boxes, site)) = 1

\* C7 witness: a finished render that drew the Other-Methods exclusions box
\* for a non-blank reason and, its trigger being empty, no Other-Methods
\* not-retrieved box, next to the four Database side boxes with blank fields.
C7_Witness ==
  /\ pc = "idle"
  /\ results # <<>>
  /\ "other_not_retrieved" \in DOMAIN d
  /\ d["other_not_retrieved"] = <<>>
  /\ BoxesAt(boxes, "other_nr") = <<>>
  /\ Field(d, "other_exc_reasons_total") = <<>>
  /\ Field(d, "other_exc_reason1") = <<"1", "2">>
  /\ Len(BoxesAt(boxes, "other_ex")) = 1
  /\ Len(BoxesAt(boxes, "db_nr")) = 1

\* the Other-Methods side column (centre x = 20.7, left edge x = 19.45) at
\* the not-retrieved level (y = 10.6) and the exclusions level (y = 7.3)
C8_BoxAt(b, y) == b.x = 20700 /\ b.y = y

C8_ElbowAt(cs, p, y) ==
  /\ p \in DOMAIN cs
  /\ p + 1 \in DOMAIN cs
  /\ cs[p].kind = "hline"
  /\ cs[p + 1].kind = "darrow"
  /\ cs[p].x2 = cs[p + 1].x1
  /\ cs[p].y2 = cs[p + 1].y1
  /\ cs[p + 1].x2 = 19450
  /\ cs[p + 1].y2 = y

Without(seq, p, n) == SubSeq(seq, 1, p - 1) \o SubSeq(seq, p + n, Len(seq))

Count(seq, Test(_)) == Len(SelectSeq(seq, Test))

C9_Openers ==
  { "of review (n = ", "Records identified from databases (n = ", "(n = ",
    "  * Duplicates (n = ", "  * Automation tools (n = ", "  * Other reasons (n = ",
    "Records screened (n = ", "  * Conflicts (n = ",
    "       o Included after discussion: ", "       o Excluded after discussion: ",
    "Records excluded at screening (n = ", "Reports sought for retrieval (n = ",
    "Reports sought (n = ", "Reports not retrieved (n = ", "Not retrieved (n = ",
    "Reports assessed for eligibility (n = ", "Assessed (n = ", "Reports excluded (n = ",
    "Studies included from databases (n = ", "Studies from other methods (n = ",
    "Total studies included in review (n = " }

C9_Closers == { ")", "):" }

\* the count a line displays after its opener at position k: the tokens up to
\* the closing chunk, or to the end of the line
C9_Shown(txt, k) ==
  LET ends == { e \in k + 1 .. Len(txt) : txt[e] \in C9_Closers }
      stop == IF ends = {} THEN Len(txt) + 1
              ELSE CHOOSE e \in ends : \A f \in ends : e <= f
  IN  SubSeq(txt, k + 1, stop - 1)

\* C9 as stated: no drawn line shows an empty count or a non-numeric
\* placeholder where a count belongs (an absent or empty count field shows
\* 0), and with the empty mapping every count shown is 0.
C9_ZeroCounts ==
  \A p \in DOMAIN boxes :
    \A l \in DOMAIN boxes[p].lines :
      LET txt == boxes[p].lines[l].txt
      IN  \A k \in DOMAIN txt :
            txt[k] \in C9_Openers =>
              /\ C9_Shown(txt, k) # <<>>
              /\ C9_Shown(txt, k) # <<"?">>
              /\ d = NoMapping => C9_Shown(txt, k) = <<"0">>

\* the part of C9 about the empty mapping alone: every count shown is 0
C9_EmptyMappingZero ==
  d = NoMapping =>
    \A p \in DOMAIN boxes :
      \A l \in DOMAIN boxes[p].lines :
        LET txt == boxes[p].lines[l].txt
        IN  \A k \in DOMAIN txt : txt[k] \in C9_Openers => C9_Shown(txt, k) = <<"0">>

\* C10: analysis-branch labels: the label of branch k is the trimmed
\* analysis_k_text, or "Analysis Branch k" when that text is absent or blank,
\* followed by the suffix "(n = <trimmed analysis_k_n>)" on a new line iff the
\* trimmed analysis_k_n is not empty.
C10_AnalysisLabels ==
  \A p \in DOMAIN boxes :
    /\ boxes[p].site = "an1" =>
         LET t == Field(d, "analysis_1_text")
             n == Field(d, "analysis_1_n")
         IN  /\ Len(boxes[p].lines) = 1
             /\ boxes[p].lines[1].txt =
                  (IF Blank(t) THEN <<"Analysis Branch 1">> ELSE strip(t))
                  \o (IF Blank(n) THEN <<>> ELSE <<"\n(n = ">> \o strip(n) \o <<")">>)
    /\ boxes[p].site = "an2" =>
         LET t == Field(d, "analysis_2_text")
             n == Field(d, "analysis_2_n")
         IN  /\ Len(boxes[p].lines) = 1
             /\ boxes[p].lines[1].txt =
                  (IF Blank(t) THEN <<"Analysis Branch 2">> ELSE strip(t))
                  \o (IF Blank(n) THEN <<>> ELSE <<"\n(n = ">> \o strip(n) \o <<")">>)

\* C10 witness: a finished render whose first branch shows a trimmed text and
\* no count suffix, its count being whitespace only, while the second branch
\* shows the placeholder.
C10_Witness ==
  /\ pc = "idle"
  /\ results # <<>>
  /\ Field(d, "analysis_1_text") = <<" ", "x", "\t">>
  /\ Field(d, "analysis_1_n") = <<" ">>
  /\ BoxesAt(boxes, "an1")[1].lines[1].txt = <<"x">>
  /\ BoxesAt(boxes, "an2")[1].lines[1].txt = <<"Analysis Branch 2">>

\* the empty mapping under the default style: no field but, at most, a style
\* key, and the classic profile resolved
C11_Case(r) == DOMAIN r.d \subseteq {"style"} /\ r.style = "Classic Blue"

\* C11 as stated: with the empty mapping and the default style, the
\* Previous-stream box (centred on x = 2.0 at the identification level
\* y = 20.0) is absent from the diagram and every conditional side box (the
\* two of the Other-Methods side column, x = 20.7) is absent.
C11_Original ==
  \A i \in DOMAIN results :
    C11_Case(results[i]) =>
      \A p \in DOMAIN results[i].boxes :
        LET b == results[i].boxes[p]
        IN  /\ ~(b.x = 2000 /\ b.y = 20000)
            /\ b.x # 20700

\* C11 as amended: with the empty mapping and the default style, the two
\* Previous-stream boxes are drawn (centred on x = 2.0 at y = 20.0 and at
\* y = 5.5, each showing n = 0), the four Database side boxes are drawn
\* (x = 13.0), and the two conditional Other-Methods side boxes (x = 20.7)
\* and their connectors (ending at x = 19.45) are absent.
C11_EmptyDefault ==
  \A i \in DOMAIN results :
    C11_Case(results[i]) =>
      LET bs == results[i].boxes
          cs == results[i].conns
          At(x, y) == SelectSeq(bs, LAMBDA b : b.x = x /\ b.y = y)
      IN  /\ Len(At(2000, 20000)) = 1
          /\ Len(At(2000, 5500)) = 1
          /\ At(2000, 20000)[1].lines[2].txt = <<"of review (n = ", "0", ")">>
          /\ At(2000, 5500)[1].lines[2].txt = <<"(n = ", "0", ")">>
          /\ \A y \in {18000, 14000, 10600, 7300} : Len(At(13000, y)) = 1
          /\ \A p \in DOMAIN bs : bs[p].x # 20700
          /\ \A p \in DOMAIN cs : cs[p].x2 # 19450
          /\ Len(bs) = 18

\* C11 witness: a finished render of the mapping {} itself, style key absent.
C11_Witness ==
  /\ pc = "idle"
  /\ Len(results) = 1
  /\ results[1].d = NoMapping
  /\ results[1].style = "Classic Blue"
  /\ Len(results[1].boxes) = 18
  /\ Len(results[1].conns) = 24

\* the connectors of cs that start inside the Previous column (x from 0.4 to
\* 3.6), and those that continue one of them from its end point
C12_FromPrevious(cs) ==
  LET first == { p \in DOMAIN cs : cs[p].x1 >= 400 /\ cs[p].x1 <= 3600 }
  IN  first \cup { q \in DOMAIN cs :
                   \E p \in first : cs[p].x2 = cs[q].x1 /\ cs[p].y2 = cs[q].y1 }

\* the side-exclusion columns: x from 11.25 to 14.75 and from 19.45 to 21.95
C12_InSideColumn(x) == (x >= 11250 /\ x <= 14750) \/ (x >= 19450 /\ x <= 21950)

\* C12: for every mapping, the Previous stream is exactly two boxes centred
\* on the Previous column (x = 2.0), the first at the identification level
\* (y = 20.0) and the second at the included level (y = 5.5), both showing the
\* prev_included count (0 when it is absent or empty); exactly one connector
\* runs down the column, a straight vertical arrow from the bottom edge of the
\* first box to the top edge of the second; and no connector that comes from
\* the Previous stream ends in a side-exclusion column.
C12_PreviousStream ==
  \A i \in DOMAIN results :
    LET m   == results[i].d
        cs  == results[i].conns
        pb  == SelectSeq(results[i].boxes, LAMBDA b : b.x = 2000)
        cnt == IF Field(m, "prev_included") = <<>> THEN <<"0">> ELSE m["prev_included"]
        col == SelectSeq(cs, LAMBDA c : c.x1 = 2000 /\ c.x2 = 2000)
    IN  /\ Len(pb) = 2
        /\ pb[1].y = 20000
        /\ pb[2].y = 5500
        /\ pb[1].lines[Len(pb[1].lines)].txt = <<"of review (n = ">> \o cnt \o <<")">>
        /\ pb[2].lines[Len(pb[2].lines)].txt = <<"(n = ">> \o cnt \o <<")">>
        /\ Len(col) = 1
        /\ col[1].kind = "darrow"
        /\ col[1].y1 = pb[1].y - pb[1].h \div 2
        /\ col[1].y2 = pb[2].y + pb[2].h \div 2
        /\ \A p \in C12_FromPrevious(cs) : ~C12_InSideColumn(cs[p].x2)

\* C12 witness: a finished render of a mapping with prev_included = "3": both
\* Previous boxes and the connectors out of the Previous column are drawn.
C12_Witness ==
  /\ pc = "idle"
  /\ Len(results) = 1
  /\ Field(results[1].d, "prev_included") = <<"3">>
  /\ Len(SelectSeq(results[1].boxes, LAMBDA b : b.x = 2000)) = 2
  /\ Cardinality(C12_FromPrevious(results[1].conns)) = 3

\* edges of a drawn box
Top(b) == b.y + b.h \div 2

Bottom(b) == b.y - b.h \div 2

Left(b) == b.x - b.w \div 2

Right(b) == b.x + b.w \div 2

\* the point (x, y) lies on the box
OnBox(x, y, b) == x >= Left(b) /\ x <= Right(b) /\ y >= Bottom(b) /\ y <= Top(b)

\* the point (x, y) lies on the top edge of the box
OnTopEdge(x, y, b) == y = Top(b) /\ x >= Left(b) /\ x <= Right(b)

\* where the path of arrow c begins: the start of the undirected segment that
\* ends where c starts, when there is one, and the start of c otherwise
PathOrigin(cs, c) ==
  LET lead == SelectSeq(cs, LAMBDA h : h.kind = "hline" /\ h.x2 = c.x1 /\ h.y2 = c.y1
                                       /\ (h.x1 # h.x2 \/ h.y1 # h.y2))
  IN  IF lead # <<>> THEN <<lead[1].x1, lead[1].y1>> ELSE <<c.x1, c.y1>>

\* C13: for every mapping, exactly three directed connectors end on the top
\* edge of the Total Included box, within its horizontal extent; the path of
\* exactly one of them begins on the included box of each stream (Previous,
\* Database, Other); and at most two directed connectors leave the Total box,
\* each ending on the top edge of an analysis-branch box, no two on the same.
C13_Convergence ==
  \A i \in DOMAIN results :
    LET bs   == results[i].boxes
        cs   == results[i].conns
        tot  == BoxesAt(bs, "total")[1]
        into == SelectSeq(cs, LAMBDA c : c.kind = "darrow" /\ OnTopEdge(c.x2, c.y2, tot))
        out  == SelectSeq(cs, LAMBDA c : c.kind = "darrow" /\ OnBox(c.x1, c.y1, tot))
        an   == SelectSeq(bs, LAMBDA b : b.site \in {"an1", "an2"})
    IN  /\ Len(BoxesAt(bs, "total")) = 1
        /\ Len(into) = 3
        /\ \A site \in {"prev_inc", "db_inc", "other_inc"} :
             /\ Len(BoxesAt(bs, site)) = 1
             /\ Cardinality({ k \in DOMAIN into :
                              OnBox(PathOrigin(cs, into[k])[1], PathOrigin(cs, into[k])[2],
                                    BoxesAt(bs, site)[1]) }) = 1
        /\ Len(out) <= 2
        /\ \A k \in DOMAIN out :
             \E a \in DOMAIN an :
               /\ OnTopEdge(out[k].x2, out[k].y2, an[a])
               /\ \A l \in DOMAIN out :
                    (l # k) => ~OnTopEdge(out[l].x2, out[l].y2, an[a])

\* C13 witness: a finished render with a filled total: three arrows end on
\* the Total box and two leave it for the two analysis boxes.
C13_Witness ==
  /\ pc = "idle"
  /\ Len(results) = 1
  /\ Field(results[1].d, "total_included") = <<"3">>
  /\ Len(SelectSeq(results[1].conns,
                   LAMBDA c : c.kind = "darrow" /\ c.x2 = 11000 /\ c.y2 = 3875)) = 2
  /\ Len(SelectSeq(results[1].conns,
                   LAMBDA c : c.kind = "darrow" /\ c.x2 = 8500 /\ c.y2 = 3875)) = 1
  /\ Len(SelectSeq(results[1].conns,
                   LAMBDA c : c.kind = "darrow" /\ c.x1 = 11000 /\ c.y1 = 3125)) = 2

\* the style parameters generate_diagram and draw_box read by subscript
\* (st["..."]); every other parameter is read with a default (st.get)
StyleReads ==
  { "arrow_col", "box_edge", "box_fg", "box_lw", "side_fg", "side_edge",
    "inc_fg", "inc_edge", "inc_lw", "title_col", "boxstyle" }

\* a profile the renderer can read without failing
C14_Readable(s) ==
  /\ StyleReads \subseteq DOMAIN s
  /\ \A k \in DOMAIN get(s, "phase_box_cols", <<>>) :
       {"fg", "edge"} \subseteq DOMAIN s["phase_box_cols"][k]

\* C14: rendering never fails on a registered style or on sparse input: every
\* key of STYLE_KEYS names a profile of DIAGRAM_STYLES that defines every
\* parameter read by subscript, a profile with phase_bands enabled supplies
\* exactly 5 phase colours, the running call's resolved profile is readable,
\* every section of a running call can be taken, no call of the batch is
\* lost, and every finished call of the batch drew a complete diagram for
\* its own key (18 boxes or more of positive size, 24 connectors or more,
\* 5 phase bands exactly when the style enables them).
C14_NoFailure ==
  /\ \A k \in DOMAIN registry.STYLE_KEYS :
       /\ registry.STYLE_KEYS[k] \in DOMAIN registry.DIAGRAM_STYLES
       /\ LET s == registry.DIAGRAM_STYLES[registry.STYLE_KEYS[k]]
          IN  /\ C14_Readable(s)
              /\ get(s, "phase_bands", FALSE) =>
                   ("phase_cols" \in DOMAIN s /\ Len(s["phase_cols"]) = 5)
  /\ pc # "idle" => C14_Readable(st)
  /\ pc # "idle" => ENABLED Next
  /\ Len(results) + Len(requests) + (IF pc = "idle" THEN 0 ELSE 1) = Len(registry.STYLE_KEYS)
  /\ \A i \in DOMAIN results :
       LET r == results[i]
           s == registry.DIAGRAM_STYLES[registry.STYLE_KEYS[i]]
       IN  /\ r.d["style"] = registry.STYLE_KEYS[i]
           /\ r.style = s["name"]
           /\ Len(r.boxes) >= 18
           /\ Len(r.conns) >= 24
           /\ \A p \in DOMAIN r.boxes : r.boxes[p].h > 0 /\ r.boxes[p].w > 0
           /\ Len(SelectSeq(r.decor, LAMBDA x : x.kind = "band"))
                = (IF get(s, "phase_bands", FALSE) THEN 5 ELSE 0)

\* C14 witness: the batch over the empty mapping has rendered every key of
\* STYLE_KEYS, the last one with phase bands.
C14_Witness ==
  /\ pc = "idle"
  /\ requests = <<>>
  /\ Len(results) = 12
  /\ DOMAIN results[1].d = {"style"}
  /\ results[12].style = "Orange Flow"
  /\ Len(SelectSeq(results[12].decor, LAMBDA x : x.kind = "band")) = 5

\* the plan generate_diagram computes for mapping m when it runs alone in a
\* freshly loaded process: its sections in order, on the registry as imported
RenderAlone(m) ==
  LET key == IF "style" \in DOMAIN m THEN m["style"] ELSE "classic"
      s   == IF key \in DOMAIN DIAGRAM_STYLES THEN DIAGRAM_STYLES[key]
             ELSE DIAGRAM_STYLES["classic"]
  IN  [ bg     |-> bg(s),
        style  |-> s["name"],
        boxes  |-> identification_row(m, s) \o pre_screening(m, s) \o screened(m, s)
                   \o sought(m, s) \o assessed(m, s) \o included(m, s)
                   \o total_included(m, s) \o analysis_branches(m, s),
        conns  |-> main_arrows(m, s) \o side_connectors(m, s),
        decor  |-> header_banners(s) \o phase_bands(m, s) \o title(s) ]

\* every finished call drew the plan of its mapping run alone, and the
\* registry is as imported
C15_Isolated ==
  /\ registry = [DIAGRAM_STYLES |-> DIAGRAM_STYLES, STYLE_KEYS |-> STYLE_KEYS]
  /\ \A i \in DOMAIN results : Plan(results[i]) = RenderAlone(results[i].d)

\* no step writes the registry; a step inside a call leaves the call's
\* mapping and profile as they are; a call takes the mapping it is passed and
\* returns with that mapping
C15_NoWrite ==
  /\ registry' = registry
  /\ (pc # "idle" /\ pc' # "idle") => (d' = d /\ st' = st)
  /\ (pc = "idle" /\ requests' # requests) => d' = Head(requests)
  /\ (results' # results) =>
       (Len(results') = Len(results) + 1 /\ results'[Len(results')].d = d)

C16_HeightRule ==
  \A p \in DOMAIN boxes :
    \E pad \in {300, 400} :
      boxes[p].h = Max(750, 280 * Len(boxes[p].lines) + pad)

\* the main flow of the Database and Other-Methods streams, top to bottom
C17_Flows ==
  { <<"db_id", "sc", "db_sou", "db_ass", "db_inc">>,
    <<"other_id", "other_sou", "other_ass", "other_inc">> }

\* C17: main-flow connectors join facing edges: between each box of the
\* Database stream (identification, screened, sought, assessed, included) or
\* of the Other-Methods stream (identification, sought, assessed, included; no
\* screening) and the next box below it, there is exactly one connector, a
\* straight vertical arrow on the stream's centre x from the bottom edge of
\* the upper box to the top edge of the lower box, with the heights the boxes
\* were drawn with; the column holds no other connector above the included
\* level.
C17_FacingEdges ==
  \A i \in DOMAIN results :
    LET bs == results[i].boxes
        cs == results[i].conns
    IN  \A flow \in C17_Flows :
          /\ \A k \in DOMAIN flow : Len(BoxesAt(bs, flow[k])) = 1
          /\ \A k \in 1 .. Len(flow) - 1 :
               LET u == BoxesAt(bs, flow[k])[1]
                   l == BoxesAt(bs, flow[k + 1])[1]
                   join == SelectSeq(cs, LAMBDA c : /\ c.x1 = u.x /\ c.y1 = Bottom(u)
                                                    /\ c.x2 = l.x /\ c.y2 = Top(l))
               IN  /\ u.x = l.x
                   /\ Len(join) = 1
                   /\ join[1].kind = "darrow"
          /\ LET x == BoxesAt(bs, flow[1])[1].x
             IN  Len(SelectSeq(cs, LAMBDA c : c.x1 = x /\ c.x2 = x /\ c.y1 > 5500))
                   = Len(flow) - 1

\* C17 witness: a finished render of the sample data: the database
\* identification box and the screened box are higher than the standard
\* height and the arrow between them joins their edges.
C17_Witness ==
  /\ pc = "idle"
  /\ Len(results) = 1
  /\ BoxesAt(results[1].boxes, "db_id")[1].h = 1800
  /\ BoxesAt(results[1].boxes, "sc")[1].h = 1980
  /\ \E p \in DOMAIN results[1].conns :
       LET c == results[1].conns[p]
       IN  c.kind = "darrow" /\ c.x1 = 8500 /\ c.y1 = 19100 /\ c.x2 = 8500 /\ c.y2 = 16790

\* C18 as stated: convergence elbow routing: for the included box of each
\* stream, the connector into the Total Included box is a horizontal
\* undirected segment from the included box to the merge column's centre
\* x = 11.0, followed by a vertical arrow on x = 11.0 that ends on the Total
\* box's top edge.
C18_ElbowRouting ==
  \A i \in DOMAIN results :
    LET bs  == results[i].boxes
        cs  == results[i].conns
        tot == BoxesAt(bs, "total")[1]
    IN  \A site \in {"prev_inc", "db_inc", "other_inc"} :
          \E h, a \in DOMAIN cs :
            /\ cs[h].kind = "hline"
            /\ OnBox(cs[h].x1, cs[h].y1, BoxesAt(bs, site)[1])
            /\ cs[h].x2 = 11000
            /\ cs[a].kind = "darrow"
            /\ cs[a].x1 = 11000
            /\ cs[a].y1 = cs[h].y2
            /\ cs[a].x2 = 11000
            /\ OnTopEdge(cs[a].x2, cs[a].y2, tot)

\* the side-exclusion boxes and the main box each branches from
C19_Branches ==
  { <<"db_id", "pre">>, <<"sc", "scx">>, <<"db_sou", "db_nr">>, <<"db_ass", "db_ex">>,
    <<"other_sou", "other_nr">>, <<"other_ass", "other_ex">> }

\* C19: side-branch elbow routing: every side-exclusion box drawn (four of
\* the Database stream, up to two of the Other-Methods stream) is reached by
\* exactly one arrow, which ends on the side box's left edge at the side
\* box's centre y and starts at mid_x = (main box's right edge + side box's
\* left edge) / 2; exactly one horizontal undirected segment leads to the
\* arrow's start, at the same y, from the main box's right-edge x.
C19_SideElbows ==
  \A i \in DOMAIN results :
    LET bs == results[i].boxes
        cs == results[i].conns
    IN  /\ \A br \in C19_Branches :
             \A p \in DOMAIN bs :
               bs[p].site = br[2] =>
                 LET side  == bs[p]
                     mbox  == BoxesAt(bs, br[1])[1]
                     mid_x == (Right(mbox) + Left(side)) \div 2
                     arr   == SelectSeq(cs, LAMBDA c : /\ c.kind = "darrow"
                                                       /\ c.x2 = Left(side) /\ c.y2 = side.y)
                     lead  == SelectSeq(cs, LAMBDA c : /\ c.kind = "hline"
                                                       /\ c.x2 = mid_x /\ c.y2 = arr[1].y1)
                 IN  /\ Len(arr) = 1
                     /\ arr[1].x1 = mid_x
                     /\ Len(lead) = 1
                     /\ lead[1].x1 = Right(mbox)
                     /\ lead[1].y1 = lead[1].y2
        /\ Len(SelectSeq(bs, LAMBDA b : b.x = 13000)) = 4
        /\ Len(SelectSeq(bs, LAMBDA b : b.x = 20700)) <= 2

\* C19 witness: a finished render with all six side boxes: the elbow to the
\* Other-Methods exclusions box runs from x = 18.55 through mid_x = 19.0 to the
\* box's left edge (19.45, 7.3).
C19_Witness ==
  /\ pc = "idle"
  /\ Len(results) = 1
  /\ Len(SelectSeq(results[1].boxes, LAMBDA b : b.x = 20700)) = 2
  /\ \E h, a \in DOMAIN results[1].conns :
       LET cs == results[1].conns
       IN  /\ cs[h].kind = "hline" /\ cs[h].x1 = 18550 /\ cs[h].x2 = 19000
           /\ cs[a].kind = "darrow" /\ cs[a].x1 = 19000 /\ cs[a].y1 = cs[h].y1
           /\ cs[a].x2 = 19450 /\ cs[a].y2 = 7300

\* C20 as stated: uniform font size: every text element drawn (every box
\* line, every stream header banner, every phase-band label) has one and the
\* same font size, 14.0 times the style's font_scale.
C20_UniformFont ==
  /\ \A p \in DOMAIN boxes :
       \A l \in DOMAIN boxes[p].lines : boxes[p].lines[l].fs = 1400 * get(st, "font_scale", 10)
  /\ \A p \in DOMAIN decor :
       decor[p].kind \in {"header", "band"} => decor[p].fs = 1400 * get(st, "font_scale", 10)

\* C21 as stated: bold tagging: in every box drawn the first (header) line is
\* tagged bold and every following (detail) line is tagged plain.
C21_BoldTagging ==
  \A p \in DOMAIN boxes :
    \A l \in DOMAIN boxes[p].lines :
      boxes[p].lines[l].bold = (l = 1)

\* a count that denotes zero: one or more digits 0 (a decimal point allowed)
C22_Zero(v) == v # <<>> /\ \A k \in DOMAIN v : v[k] \in {"0", "."}

\* C22 as stated: conflict breakdown: the screened box holds the conflicts
\* line iff conflict_total, trimmed, is not empty and does not denote zero; a
\* conflicts line is always followed by exactly its two detail lines
\* (included after discussion, excluded after discussion), so the three
\* appear together or not at all.
C22_ConflictBreakdown ==
  \A p \in DOMAIN boxes :
    boxes[p].site = "sc" =>
      LET ls   == boxes[p].lines
          t    == strip(Field(d, "conflict_total"))
          conf == { l \in DOMAIN ls : ls[l].txt[1] = "  * Conflicts (n = " }
          inc  == { l \in DOMAIN ls : ls[l].txt[1] = "       o Included after discussion: " }
          exc  == { l \in DOMAIN ls : ls[l].txt[1] = "       o Excluded after discussion: " }
      IN  /\ (conf # {}) <=> (t # <<>> /\ ~C22_Zero(t))
          /\ \A l \in conf : l + 2 = Len(ls) /\ (l + 1) \in inc /\ (l + 2) \in exc
          /\ Cardinality(conf) <= 1
          /\ (conf = {}) => (inc = {} /\ exc = {})

(***************************************************************************)
(* draw_box called on its own: one call on empty axes, with arguments the  *)
(* diagram itself never passes (no line, no accent colour, st=None, a      *)
(* profile without a shadow entry).                                        *)
(***************************************************************************)
BoxLines ==
  { <<>>,
    << Line(<<"a">>, TRUE, 14000) >>,
    << Line(<<"a">>, TRUE, 14000), Line(<<"b">>, FALSE, 14000) >>,
    << Line(<<"a">>, FALSE, 9000), Line(<<"b">>, FALSE, 14000), Line(<<"c">>, TRUE, 14000) >>,
    << Line(<<"a">>, TRUE, 14000), Line(<<>>, FALSE, 14000), Line(<<"c">>, FALSE, 14000),
       Line(<<"d">>, FALSE, 14000) >> }

BoxCalls ==
  { draw_box("box", x, y, w, h, lines, "white", "#2c3e50", 130, "#333333", accent_col) :
      x \in {DX}, y \in {0, Y_ID}, w \in {3000, 3400, DW}, h \in {20, H_STD, 1240},
      lines \in BoxLines, accent_col \in {"None", "", "#6c5ce7"} }

BoxStyles ==
  { NoStyle, registry.DIAGRAM_STYLES["classic"], registry.DIAGRAM_STYLES["shadowed"],
    [boxstyle |-> "square,pad=0.05"] }

InitBox ==
  /\ registry = [DIAGRAM_STYLES |-> DIAGRAM_STYLES, STYLE_KEYS |-> STYLE_KEYS]
  /\ plt = "pyplot"
  /\ parked = EmptyBag
  /\ requests = <<>>
  /\ results = <<>>
  /\ pc = "draw_box"
  /\ d = NoMapping
  /\ st = NoStyle
  /\ boxes = <<>>
  /\ conns = <<>>
  /\ decor = <<>>
  /\ ax = <<>>
  /\ db = init_db
  /\ session = [c \in Clients |-> NoSession]
  /\ request = NoRequest
  /\ response = NoResponse

\* draw_box(ax, x, y, w, h, lines, ..., st=s, accent_col=...)
DrawBox ==
  /\ pc = "draw_box"
  /\ \E b \in BoxCalls, s \in BoxStyles :
       /\ boxes' = Append(boxes, b)
       /\ st' = s
       /\ ax' = ax \o artists(b, s)
  /\ pc' = "drawn"
  /\ UNCHANGED <<web, registry, plt, parked, requests, results, d, conns, decor>>

NextBox == DrawBox

SpecBox == InitBox /\ [][NextBox]_vars

\* the artists on the axes that draw_box calls put there
C23_Drawn ==
  SelectSeq(ax, LAMBDA a : a.kind \in {"shadow", "box", "bar", "text"})

\* 1 if the call was given an accent colour, else 0
C23_Accent(b) == IF b.accent_col \in {"None", ""} THEN 0 ELSE 1

\* number of artists of the calls before the k-th
RECURSIVE C23_Before(_)
C23_Before(k) ==
  IF k <= 1 THEN 0
  ELSE C23_Before(k - 1) + 2 + C23_Accent(boxes[k - 1]) + Len(boxes[k - 1].lines)

\* the style asks for the stronger shadow
C23_Strong == st # NoStyle /\ "shadow" \in DOMAIN st /\ st["shadow"] = TRUE

\* C23: every draw_box call adds, back to front, a shadow (always; stronger
\* when the style's shadow flag is set), the main box, the accent bar when an
\* accent colour is given, and then one text per line and nothing else; the
\* i-th line (0-based) of n is at y + h/2 - (i+1) * h / (n+1), so the lines run
\* top to bottom, evenly spaced, strictly inside the box's vertical extent and
\* symmetric about its centre; a call with zero lines adds no text.
C23_DrawBox ==
  /\ Len(C23_Drawn) = C23_Before(Len(boxes) + 1)
  /\ \A k \in DOMAIN boxes :
       LET b      == boxes[k]
           n      == Len(b.lines)
           a      == C23_Accent(b)
           seg(j) == C23_Drawn[C23_Before(k) + j]
           t(i)   == seg(2 + a + i)
       IN  /\ seg(1).kind = "shadow" /\ seg(1).zorder = 2
           /\ seg(1).alpha = (IF C23_Strong THEN 40 ELSE 18)
           /\ seg(1).w = b.w /\ seg(1).h = b.h
           /\ seg(2).kind = "box" /\ seg(2).zorder = 3
           /\ seg(2).x0 = Left(b) /\ seg(2).y0 = Bottom(b)
           /\ a = 1 => seg(3).kind = "bar" /\ seg(3).zorder = 4
                       /\ seg(3).facecolor = b.accent_col
           /\ \A i \in 1 .. n :
                /\ t(i).kind = "text" /\ t(i).zorder = 5
                /\ t(i).txt = b.lines[i].txt
                /\ t(i).den > 0
                \* the stated height, for the 0-based index i - 1
                /\ t(i).num * 2 * (n + 1)
                     = t(i).den * ((2 * b.y + b.h) * (n + 1) - 2 * b.h * i)
                \* strictly between the bottom and the top edge
                /\ 2 * t(i).num > t(i).den * (2 * b.y - b.h)
                /\ 2 * t(i).num < t(i).den * (2 * b.y + b.h)
                \* mirrored about the centre y
                /\ t(i).num + t(n + 1 - i).num = 2 * b.y * t(i).den
                \* each line one step below the one before
                /\ i < n => /\ t(i + 1).den = t(i).den
                            /\ t(i).num > t(i + 1).num
                            /\ (n + 1) * (t(i).num - t(i + 1).num) = b.h * t(i).den

\* a box with three lines and an accent colour has been drawn on its own
C23_Witness ==
  /\ pc = "drawn"
  /\ Len(boxes) = 1
  /\ Len(boxes[1].lines) = 3
  /\ boxes[1].accent_col = "#6c5ce7"
  /\ C23_Strong
  /\ Len(ax) = 6

\* the assembly stage an artist belongs to
C24_Stage(a) ==
  CASE a.kind = "header" -> 1
    [] a.kind \in {"shadow", "box", "bar", "text"} -> 2
    [] a.kind \in {"darrow", "hline"} -> 3
    [] a.kind \in {"band_shadow", "band"} -> 4
    [] a.kind \in {"title_rule", "title"} -> 5
    [] OTHER -> 0

C24_Of(stage) == SelectSeq(ax, LAMBDA a : C24_Stage(a) = stage)

C24_Labels == SelectSeq(ax, LAMBDA a : a.kind = "band")

\* the artists on the axes are in stage order: banners, boxes, connectors,
\* band labels, title
C24_Ordered ==
  /\ \A i \in DOMAIN ax : C24_Stage(ax[i]) \in 1 .. 5
  /\ \A i \in 1 .. Len(ax) - 1 : C24_Stage(ax[i]) <= C24_Stage(ax[i + 1])

\* band labels: none unless the profile's phase_bands flag is set, and then,
\* once the connectors are done, exactly five, one per phase colour
C24_Bands ==
  LET flag == "phase_bands" \in DOMAIN st /\ st["phase_bands"] = TRUE
  IN  /\ Len(C24_Labels) \in {0, 5}
      /\ ~flag => Len(C24_Labels) = 0
      /\ (flag /\ pc \in {"title", "encode"}) =>
           /\ Len(C24_Labels) = 5
           /\ \A i \in 1 .. 5 : C24_Labels[i].col = st["phase_cols"][i]

\* a finished render has gone through every stage
C24_Complete ==
  pc = "encode" =>
    /\ Len(C24_Of(1)) = 3
    /\ Len(C24_Of(2)) > 0
    /\ Len(C24_Of(3)) > 0
    /\ Len(C24_Of(5)) > 0

\* within a call the axes only gain artists, at the end
C24_Grows ==
  (pc # "idle" /\ pc' # "idle") =>
    /\ Len(ax') >= Len(ax)
    /\ SubSeq(ax', 1, Len(ax)) = ax

\* C24: in every render the drawing operations occur in the order header
\* banners, all boxes, all connectors, phase-band labels, title (nothing is
\* inserted before what is already drawn, and no connector precedes a box);
\* band labels are emitted iff the resolved style's phase_bands flag is set,
\* and then exactly five, one per phase colour.
C24_AssemblyOrder ==
  /\ [](C24_Ordered /\ C24_Bands /\ C24_Complete)
  /\ [][C24_Grows]_vars

\* a render with phase bands has drawn its title
C24_Witness ==
  /\ pc = "encode"
  /\ Len(C24_Labels) = 5
  /\ Len(C24_Of(3)) > 0

\* the boxes stacked in one column, by drawing site
C26_Columns ==
  { {"db_id", "sc", "db_sou", "db_ass", "db_inc"},
    {"pre", "scx", "db_nr", "db_ex"},
    {"other_nr", "other_ex"} }

\* the straight main-flow connectors: the vertical arrows between two levels
C26_Straight == { c \in DOMAIN conns : conns[c].kind = "darrow" /\ conns[c].x1 = conns[c].x2 }

\* C26: the boxes stacked in the same column (Database main, Database side,
\* Other-Methods side) have pairwise disjoint vertical extents, whatever the
\* number of filled slots; every straight main-flow connector has positive
\* length and points downward.
C26_NoVerticalOverlap ==
  /\ \A col \in C26_Columns :
       \A p, q \in DOMAIN boxes :
         (p < q /\ boxes[p].site \in col /\ boxes[q].site \in col) =>
           /\ boxes[p].x = boxes[q].x
           /\ Top(boxes[q]) < Bottom(boxes[p])
  /\ \A c \in C26_Straight : conns[c].y1 > conns[c].y2

\* every box at its largest: six sources, all screened lines, six exclusion
\* reasons, both Other-Methods side boxes, and the connectors drawn
C26_Witness ==
  /\ pc = "encode"
  /\ \E p \in DOMAIN boxes : boxes[p].site = "db_id" /\ Len(boxes[p].lines) = 7
  /\ \E p \in DOMAIN boxes : boxes[p].site = "sc" /\ Len(boxes[p].lines) = 6
  /\ \E p \in DOMAIN boxes : boxes[p].site = "db_ex" /\ Len(boxes[p].lines) = 7
  /\ \E p \in DOMAIN boxes : boxes[p].site = "other_nr"
  /\ \E p \in DOMAIN boxes : boxes[p].site = "other_ex" /\ Len(boxes[p].lines) = 5
  /\ C26_Straight # {}

\* the rectangles of box b and decoration a share interior points
C27_Covers(a, b) ==
  /\ Left(b) < a.x0 + a.w /\ Right(b) > a.x0
  /\ Bottom(b) < a.y0 + a.h /\ Top(b) > a.y0

\* C27 as stated: decorations never cover content: no content box overlaps a
\* stream header banner (each identification box's top edge stays at or below
\* the banner's bottom edge HDR_Y - HDR_H/2, for any number of source lines),
\* and no phase-band label overlaps the horizontal extent of a content box.
C27_Decorations ==
  \A p \in DOMAIN boxes :
    \A q \in DOMAIN decor :
      /\ decor[q].kind = "header" =>
           /\ ~C27_Covers(decor[q], boxes[p])
           /\ boxes[p].y = Y_ID => Top(boxes[p]) <= HDR_Y - HDR_H \div 2
      /\ decor[q].kind = "band" =>
           (Right(boxes[p]) <= decor[q].x0 \/ Left(boxes[p]) >= decor[q].x0 + decor[q].w)

\* the banner part alone
C27_Banners ==
  \A p \in DOMAIN boxes :
    \A q \in DOMAIN decor :
      decor[q].kind = "header" => ~C27_Covers(decor[q], boxes[p])

\* the band part alone
C27_BandLabels ==
  \A p \in DOMAIN boxes :
    \A q \in DOMAIN decor :
      decor[q].kind = "band" =>
        (Right(boxes[p]) <= decor[q].x0 \/ Left(boxes[p]) >= decor[q].x0 + decor[q].w)

\* the horizontal segments that open the side-branch elbows, with the centre
\* line of the stream each one leaves
C28_Elbows ==
  { c \in DOMAIN conns :
      /\ conns[c].kind = "hline"
      /\ conns[c].site \in {"db_pre_elbow", "db_scx_elbow", "db_nr_elbow", "db_ex_elbow",
                            "other_nr_elbow", "other_ex_elbow"} }

C28_StreamX(c) == IF conns[c].site \in {"other_nr_elbow", "other_ex_elbow"} THEN OX ELSE DX

\* the point (x, y) lies on the outline of box b
C28_OnOutline(x, y, b) ==
  /\ OnBox(x, y, b)
  /\ (x = Left(b) \/ x = Right(b) \/ y = Top(b) \/ y = Bottom(b))

\* C28 as stated: the starting point of each side-branch elbow's horizontal
\* segment lies on the boundary of a main-flow box of its stream or on that
\* stream's vertical main-flow connector; it does not start in the space
\* between boxes.
C28_Attached ==
  \A c \in C28_Elbows :
    LET x == conns[c].x1
        y == conns[c].y1
    IN  \/ \E p \in DOMAIN boxes :
             /\ boxes[p].x = C28_StreamX(c)
             /\ boxes[p].y >= Y_INC
             /\ C28_OnOutline(x, y, boxes[p])
        \/ \E a \in DOMAIN conns :
             /\ conns[a].kind = "darrow"
             /\ conns[a].x1 = C28_StreamX(c) /\ conns[a].x2 = C28_StreamX(c)
             /\ x = conns[a].x1
             /\ y <= conns[a].y1 /\ y >= conns[a].y2

\* the aliased counts: primary field, legacy field, the box and the chunk
\* after which the count is shown
C29_Aliases ==
  { <<"db_identified", "total_identified", "db_id", "Records identified from databases (n = ">>,
    <<"db_duplicates", "duplicates", "pre", "  * Duplicates (n = ">>,
    <<"db_screened", "screened", "sc", "Records screened (n = ">>,
    <<"db_exc_screened", "exc_screened", "scx", "Records excluded at screening (n = ">>,
    <<"db_sought", "retrieval", "db_sou", "Reports sought for retrieval (n = ">>,
    <<"db_not_retrieved", "not_retrieved", "db_nr", "Reports not retrieved (n = ">>,
    <<"db_assessed", "eligibility", "db_ass", "Reports assessed for eligibility (n = ">>,
    <<"db_included", "included", "db_inc", "Studies included from databases (n = ">> }

\* the value read for a primary / legacy pair: the legacy one iff the primary
\* key is absent
C29_Read(primary, legacy) ==
  IF primary \in DOMAIN d THEN d[primary] ELSE Field(d, legacy)

C29_Reason(i) == strip(C29_Read(Key("db_exc_reason", i, ""), Key("exc_reason", i, "")))

C29_ReasonN(i) == strip(C29_Read(Key("db_exc_reason", i, "_n"), Key("exc_reason", i, "_n")))

C29_Slots == { i \in 1 .. 6 : C29_Reason(i) # <<>> /\ C29_ReasonN(i) # <<>> }

\* C29: legacy field aliases: for each count with a primary and a legacy
\* field name the legacy value is used iff the primary key is absent from the
\* mapping; a primary key present with an empty value shows 0 (or, for an
\* exclusion reason, skips the slot) even when the legacy field holds a value.
C29_LegacyAliases ==
  \A p \in DOMAIN boxes :
    /\ \A a \in C29_Aliases :
         boxes[p].site = a[3] =>
           \E l \in DOMAIN boxes[p].lines :
             LET txt == boxes[p].lines[l].txt
                 v   == C29_Read(a[1], a[2])
             IN  /\ txt[1] = a[4]
                 /\ C9_Shown(txt, 1) = (IF v = <<>> THEN <<"0">> ELSE v)
    /\ boxes[p].site = "db_ex" =>
         /\ Len(boxes[p].lines) = 1 + Cardinality(C29_Slots)
         /\ \A i \in C29_Slots :
              \E l \in 2 .. Len(boxes[p].lines) :
                boxes[p].lines[l].txt
                  = <<"  * ">> \o C29_Reason(i) \o <<": ">> \o C29_ReasonN(i)

\* the primary key is present and empty, the legacy field holds a value, and
\* the identification box shows 0
C29_Witness ==
  /\ "db_identified" \in DOMAIN d /\ d["db_identified"] = <<>>
  /\ "total_identified" \in DOMAIN d /\ d["total_identified"] = <<"3">>
  /\ \E p \in DOMAIN boxes :
       /\ boxes[p].site = "db_id"
       /\ C9_Shown(boxes[p].lines[1].txt, 1) = <<"0">>

(***************************************************************************)
(* The request handlers around the engine (src/app.py 722-903).  A handler *)
(* runs from the request to its response in one step: it reads the         *)
(* browser's session cookie, reads or writes the store and answers.  The   *)
(* render call inside generate is the whole of generate_diagram.           *)
(***************************************************************************)
\* most diagram rows ever inserted
MaxRows == 2

\* fig.savefig(buf, format="png") on what the call drew: the picture, told
\* apart by its background, its profile, each box's place, height and text,
\* and the number of connectors and decorations
png(m) ==
  LET p == RenderAlone(m)
  IN  [ format |-> "png", bg |-> p.bg, style |-> p.style,
        boxes  |-> [ i \in DOMAIN p.boxes |->
                       [ site  |-> p.boxes[i].site, h |-> p.boxes[i].h,
                         lines |-> [ l \in DOMAIN p.boxes[i].lines |->
                                       p.boxes[i].lines[l].txt ] ] ],
        conns  |-> Len(p.conns),
        decor  |-> Len(p.decor) ]

b64encode(bytes) == [b64 |-> bytes]

b64decode(text) == text.b64

\* generate_diagram's return value (712-717)
generate_diagram(m) == b64encode(png(m))

\* request.form.to_dict(): the first value submitted for each field name
to_dict(form) == [k \in DOMAIN form |-> form[k][1]]

\* json.dumps / json.loads of a mapping of strings
dumps(m) == [json |-> { <<k, m[k]>> : k \in DOMAIN m }]

loads(text) ==
  [ k \in { p[1] : p \in text.json } |-> (CHOOSE p \in text.json : p[1] = k)[2] ]

redirect(to) == [kind |-> "redirect", to |-> to]

render_template(template, error) == [kind |-> "page", template |-> template, error |-> error]

\* login_required (249-255): without user_id in the session the handler does
\* not run and the browser is sent to the login page
login_required(c, handler) ==
  IF "user_id" \notin DOMAIN session[c]
    THEN /\ response' = redirect("login")
         /\ UNCHANGED <<db, session, plt>>
    ELSE handler

ALICE == <<"a", "l", "i", "c", "e">>

SECRET == <<"s", "e", "c", "r", "e", "t">>

DEMO_PW == <<"d", "e", "m", "o", "1", "2", "3", "4">>

SignupForms ==
  { [username |-> <<" ">> \o ALICE, email |-> <<"a@x.org">>, password |-> SECRET,
     confirm |-> SECRET],
    [username |-> ALICE, email |-> <<"a@x.org">>, password |-> <<"p", "w">>,
     confirm |-> <<"p", "w">>],
    [username |-> DEMO, email |-> <<"d@x.org">>, password |-> SECRET, confirm |-> SECRET],
    [username |-> ALICE, email |-> <<"demo@gmail.com">>, password |-> SECRET,
     confirm |-> SECRET] }

LoginForms ==
  { [username |-> DEMO, password |-> DEMO_PW],
    [username |-> ALICE \o <<" ">>, password |-> SECRET],
    [username |-> ALICE, password |-> DEMO_PW] }

\* the submitted diagram forms: each field name with the values sent for it
DiagramForms ==
  { NoSession,
    [style |-> <<"academic", "minimal">>, db_identified |-> << <<"1", "2">> >>] }

DiagramIds == 1 .. MaxRows

signup ==
  \E c \in Clients, method \in {"GET", "POST"}, form \in SignupForms \cup {NoSession} :
    /\ (method = "GET") = (form = NoSession)
    /\ request' = [c |-> c, route |-> "signup", method |-> method, form |-> form, id |-> 0]
    /\ IF "user_id" \in DOMAIN session[c]
         THEN /\ response' = redirect("index")
              /\ UNCHANGED <<db, session>>
         ELSE IF method # "POST"
           THEN /\ response' = render_template("signup.html", "None")
                /\ UNCHANGED <<db, session>>
           ELSE
             LET username == strip(get(form, "username", EMPTY))
                 email    == strip(get(form, "email", EMPTY))
                 password == get(form, "password", EMPTY)
                 confirm  == get(form, "confirm", EMPTY)
                 error ==
                   IF username = <<>> \/ email = <<>> \/ password = <<>>
                     THEN "All fields are required."
                   ELSE IF Len(username) < 3
                     THEN "Username must be at least 3 characters."
                   ELSE IF password # confirm
                     THEN "Passwords do not match."
                   ELSE IF Len(password) < 6
                     THEN "Password must be at least 6 characters."
                   ELSE IF \E u \in db.users : u.username = username
                     THEN "Username already taken."
                   ELSE IF \E u \in db.users : u.email = email
                     THEN "Email already registered."
                   ELSE "None"
                 user == [ id |-> Cardinality(db.users) + 1, username |-> username,
                           email |-> email,
                           password_hash |-> generate_password_hash(password) ]
             IN  IF error # "None"
                   THEN /\ response' = render_template("signup.html", error)
                        /\ UNCHANGED <<db, session>>
                   ELSE /\ db' = [db EXCEPT !.users = @ \cup {user}]
                        /\ session' = [session EXCEPT
                                         ![c] = [user_id |-> user.id, username |-> user.username]]
                        /\ response' = redirect("index")
    /\ UNCHANGED <<registry, plt, parked, requests, results, pc, d, st, boxes, conns, decor, ax>>

login ==
  \E c \in Clients, method \in {"GET", "POST"}, form \in LoginForms \cup {NoSession} :
    /\ (method = "GET") = (form = NoSession)
    /\ request' = [c |-> c, route |-> "login", method |-> method, form |-> form, id |-> 0]
    /\ IF "user_id" \in DOMAIN session[c]
         THEN /\ response' = redirect("index")
              /\ UNCHANGED session
         ELSE IF method # "POST"
           THEN /\ response' = render_template("login.html", "None")
                /\ UNCHANGED session
           ELSE
             LET username == strip(get(form, "username", EMPTY))
                 password == get(form, "password", EMPTY)
                 found    == { u \in db.users : u.username = username }
             IN  IF \E u \in found : check_password_hash(u.password_hash, password)
                   THEN /\ \E u \in found :
                             session' = [session EXCEPT
                                           ![c] = [user_id |-> u.id, username |-> u.username]]
                        /\ response' = redirect("index")
                   ELSE /\ response' = render_template("login.html",
                                                       "Invalid username or password.")
                        /\ UNCHANGED session
    /\ UNCHANGED <<db, registry, plt, parked, requests, results, pc, d, st, boxes, conns,
                   decor, ax>>

logout ==
  \E c \in Clients :
    /\ request' = [c |-> c, route |-> "logout", method |-> "GET", form |-> NoSession, id |-> 0]
    /\ session' = [session EXCEPT ![c] = NoSession]
    /\ response' = redirect("login")
    /\ UNCHANGED <<db, registry, plt, parked, requests, results, pc, d, st, boxes, conns,
                   decor, ax>>

\* generate saving every diagram under the first account
generate_for_first_user ==
  \E c \in Clients, form \in DiagramForms :
    /\ "user_id" \in DOMAIN session[c] => db.seq < MaxRows
    /\ request' = [c |-> c, route |-> "generate", method |-> "POST", form |-> form, id |-> 0]
    /\ login_required(c,
         LET m       == to_dict(form)
             img_b64 == generate_diagram(m)
             new_id  == db.seq + 1
         IN  /\ plt' = "pyplot"
             /\ db' = [db EXCEPT
                         !.diagrams = @ \cup { [ id |-> new_id,
                                                 user_id |-> 1,
                                                 title |-> "PRISMA Diagram",
                                                 img_b64 |-> img_b64,
                                                 form_data |-> dumps(m) ] },
                         !.seq = new_id]
             /\ response' = [ kind |-> "page", template |-> "result.html", img |-> img_b64,
                              data |-> m, diagram_id |-> new_id ]
             /\ UNCHANGED session)
    /\ UNCHANGED <<registry, parked, requests, results, pc, d, st, boxes, conns, decor, ax>>

\* POST /generate (819-837)
generate ==
  \E c \in Clients, form \in DiagramForms :
    /\ "user_id" \in DOMAIN session[c] => db.seq < MaxRows
    /\ request' = [c |-> c, route |-> "generate", method |-> "POST", form |-> form, id |-> 0]
    /\ login_required(c,
         LET m       == to_dict(form)
             img_b64 == generate_diagram(m)
             new_id  == db.seq + 1
         IN  /\ plt' = "pyplot"
             /\ db' = [db EXCEPT
                         !.diagrams = @ \cup { [ id |-> new_id,
                                                 user_id |-> session[c]["user_id"],
                                                 title |-> "PRISMA Diagram",
                                                 img_b64 |-> img_b64,
                                                 form_data |-> dumps(m) ] },
                         !.seq = new_id]
             /\ response' = [ kind |-> "page", template |-> "result.html", img |-> img_b64,
                              data |-> m, diagram_id |-> new_id ]
             /\ UNCHANGED session)
    /\ UNCHANGED <<registry, parked, requests, results, pc, d, st, boxes, conns, decor, ax>>

\* GET /my-diagrams (850-860)
my_diagrams ==
  \E c \in Clients :
    /\ request' = [c |-> c, route |-> "my_diagrams", method |-> "GET", form |-> NoSession,
                   id |-> 0]
    /\ login_required(c,
         LET rows == { r \in db.diagrams : r.user_id = session[c]["user_id"] }
         IN  /\ response' = [ kind |-> "page", template |-> "my_diagrams.html",
                              diagrams |-> { [id |-> r.id, title |-> r.title] : r \in rows } ]
             /\ UNCHANGED <<db, session, plt>>)
    /\ UNCHANGED <<registry, parked, requests, results, pc, d, st, boxes, conns, decor, ax>>

\* view_diagram selecting by id alone
view_diagram_any_owner ==
  \E c \in Clients, diagram_id \in DiagramIds :
    /\ request' = [c |-> c, route |-> "view_diagram", method |-> "GET", form |-> NoSession,
                   id |-> diagram_id]
    /\ login_required(c,
         LET rows == { r \in db.diagrams : r.id = diagram_id }
         IN  /\ IF rows = {}
                  THEN response' = redirect("my_diagrams")
                  ELSE \E row \in rows :
                         response' = [ kind |-> "page", template |-> "result.html",
                                       img |-> row.img_b64, data |-> loads(row.form_data),
                                       diagram_id |-> diagram_id ]
             /\ UNCHANGED <<db, session, plt>>)
    /\ UNCHANGED <<registry, parked, requests, results, pc, d, st, boxes, conns, decor, ax>>

\* GET /my-diagrams/<id> (863-876)
view_diagram ==
  \E c \in Clients, diagram_id \in DiagramIds :
    /\ request' = [c |-> c, route |-> "view_diagram", method |-> "GET", form |-> NoSession,
                   id |-> diagram_id]
    /\ login_required(c,
         LET rows == { r \in db.diagrams :
                         r.id = diagram_id /\ r.user_id = session[c]["user_id"] }
         IN  /\ IF rows = {}
                  THEN response' = redirect("my_diagrams")
                  ELSE \E row \in rows :
                         response' = [ kind |-> "page", template |-> "result.html",
                                       img |-> row.img_b64, data |-> loads(row.form_data),
                                       diagram_id |-> diagram_id ]
             /\ UNCHANGED <<db, session, plt>>)
    /\ UNCHANGED <<registry, parked, requests, results, pc, d, st, boxes, conns, decor, ax>>

\* GET /my-diagrams/<id>/img (879-890)
diagram_thumb ==
  \E c \in Clients, diagram_id \in DiagramIds :
    /\ request' = [c |-> c, route |-> "diagram_thumb", method |-> "GET", form |-> NoSession,
                   id |-> diagram_id]
    /\ login_required(c,
         LET rows == { r \in db.diagrams :
                         r.id = diagram_id /\ r.user_id = session[c]["user_id"] }
         IN  /\ IF rows = {}
                  THEN response' = [kind |-> "status", code |-> 404]
                  ELSE \E row \in rows :
                         response' = [ kind |-> "file", body |-> b64decode(row.img_b64),
                                       mimetype |-> "image/png" ]
             /\ UNCHANGED <<db, session, plt>>)
    /\ UNCHANGED <<registry, parked, requests, results, pc, d, st, boxes, conns, decor, ax>>

\* POST /delete-diagram/<id> (893-903)
delete_diagram ==
  \E c \in Clients, diagram_id \in DiagramIds :
    /\ request' = [c |-> c, route |-> "delete_diagram", method |-> "POST", form |-> NoSession,
                   id |-> diagram_id]
    /\ login_required(c,
         /\ db' = [db EXCEPT
                     !.diagrams = { r \in @ : ~(r.id = diagram_id
                                                /\ r.user_id = session[c]["user_id"]) }]
         /\ response' = redirect("my_diagrams")
         /\ UNCHANGED <<session, plt>>)
    /\ UNCHANGED <<registry, parked, requests, results, pc, d, st, boxes, conns, decor, ax>>

NextWeb ==
  \/ signup
  \/ login
  \/ logout
  \/ generate
  \/ my_diagrams
  \/ view_diagram
  \/ diagram_thumb
  \/ delete_diagram

\* the application started (init_db run), no request served yet
InitWeb ==
  /\ Loaded
  /\ requests = <<>>

SpecWeb == InitWeb /\ [][NextWeb]_vars

\* the request just served came with a logged-in session
C25_LoggedIn == request'.c \in Clients /\ "user_id" \in DOMAIN session[request'.c]

\* one request: what it does to the diagrams table
C25_Step ==
  LET new  == db'.diagrams \ db.diagrams
      gone == db.diagrams \ db'.diagrams
  IN  \* a generate request of a logged-in user
      /\ (request'.route = "generate" /\ C25_LoggedIn) =>
           /\ gone = {}
           /\ \E row \in new :
                /\ new = {row}
                /\ row.id \notin { r.id : r \in db.diagrams }
                /\ row.user_id = session[request'.c]["user_id"]
                \* the mapping is the submitted form, field by field
                /\ DOMAIN response'.data = DOMAIN request'.form
                /\ \A k \in DOMAIN request'.form : response'.data[k] = request'.form[k][1]
                \* the row holds the image and the mapping handed back
                /\ response'.img = generate_diagram(response'.data)
                /\ row.img_b64 = response'.img
                /\ loads(row.form_data) = response'.data
      \* a delete request of a logged-in user removes that user's row of that id
      /\ (request'.route = "delete_diagram" /\ C25_LoggedIn) =>
           /\ new = {}
           /\ gone = { r \in db.diagrams :
                         r.id = request'.id /\ r.user_id = session[request'.c]["user_id"] }
      \* nothing else touches the table
      /\ ~(request'.route \in {"generate", "delete_diagram"} /\ C25_LoggedIn) =>
           db'.diagrams = db.diagrams

\* the rows have distinct ids, none above the counter, and existing owners
C25_Rows ==
  /\ \A r, q \in db.diagrams : r.id = q.id => r = q
  /\ \A r \in db.diagrams :
       /\ r.id \in 1 .. db.seq
       /\ \E u \in db.users : u.id = r.user_id

\* C25: each successful POST /generate by a logged-in user forwards the form
\* fields unchanged as the field mapping and inserts exactly one row whose
\* user_id is the session's user and whose img_b64 and form_data are the image
\* returned and the submitted mapping; rows leave the table only by their
\* owner's delete request, so a user's rows are always exactly those the user
\* generated and has not deleted.
C25_History == [][C25_Step]_vars /\ []C25_Rows

\* two users each have a diagram in the table, the second just generated
C25_Witness ==
  /\ request.route = "generate"
  /\ response.kind = "page"
  /\ Cardinality(db.diagrams) = 2
  /\ \E r, q \in db.diagrams : r.user_id # q.user_id

\* the handlers behind login_required
C30_Protected ==
  {"generate", "my_diagrams", "view_diagram", "diagram_thumb", "delete_diagram"}

\* what the request just served was answered
C30_Reads ==
  request.route \in C30_Protected =>
    IF "user_id" \notin DOMAIN session[request.c]
      THEN response = redirect("login")
      ELSE LET uid == session[request.c]["user_id"]
           IN  /\ (request.route = "view_diagram" /\ response.kind = "page") =>
                    \E r \in db.diagrams :
                      /\ r.id = request.id /\ r.user_id = uid
                      /\ response.img = r.img_b64
                      /\ response.data = loads(r.form_data)
               /\ (request.route = "view_diagram" /\ response.kind # "page") =>
                    response = redirect("my_diagrams")
               /\ (request.route = "diagram_thumb" /\ response.kind = "file") =>
                    \E r \in db.diagrams :
                      /\ r.id = request.id /\ r.user_id = uid
                      /\ response.body = b64decode(r.img_b64)
               /\ (request.route = "diagram_thumb" /\ response.kind # "file") =>
                    response = [kind |-> "status", code |-> 404]
               /\ request.route = "my_diagrams" =>
                    { x.id : x \in response.diagrams }
                      = { r.id : r \in { q \in db.diagrams : q.user_id = uid } }

\* what one request may change
C30_Writes ==
  /\ \A r \in db.diagrams \ db'.diagrams :
       /\ request'.route = "delete_diagram"
       /\ r.id = request'.id
       /\ "user_id" \in DOMAIN session[request'.c]
       /\ r.user_id = session[request'.c]["user_id"]
  /\ (request'.route \in C30_Protected /\ "user_id" \notin DOMAIN session[request'.c]) =>
       /\ db' = db
       /\ session' = session
  \* a request changes no other browser's session
  /\ \A c \in Clients : c # request'.c => session'[c] = session[c]

\* C30: after any sequence of signup, login, logout, generate, view,
\* thumbnail and delete requests by several users, view_diagram and
\* diagram_thumb return a diagram only if its user_id is the session's user_id,
\* delete_diagram removes only rows owned by the session's user, my_diagrams
\* lists only the session user's rows, and none of these handlers runs for a
\* session without user_id: the request is redirected to login.
C30_Isolation == []C30_Reads /\ [][C30_Writes]_vars

\* a logged-in user asked for another user's diagram and was sent back to the
\* list
C30_Witness ==
  /\ request.route = "view_diagram"
  /\ "user_id" \in DOMAIN session[request.c]
  /\ \E r \in db.diagrams :
       r.id = request.id /\ r.user_id # session[request.c]["user_id"]
  /\ response = redirect("my_diagrams")

====
